---- MODULE Spec2Model ----
(***************************************************************************)
(* AutoLab Drive (Jay-tech456/Newton): two research labs analyse a driving *)
(* event, a judge compares them and a meta-learner evolves each lab's      *)
(* strategy genome.  Numbers that are floats in the source (scores,        *)
(* weights) are kept as integer hundredths; version numbers as tenths.     *)
(* Python strings that the code takes apart (replace, lower, "in", float)  *)
(* are sequences of one-character strings.                                 *)
(***************************************************************************)
EXTENDS Integers, Sequences, FiniteSets, TLC

\* ------------------------------------------------------------------------
\* Bounds of the model
\* ------------------------------------------------------------------------
MaxRuns == 2

\* calls made on an agent object constructed on its own
MaxCalls == 2

\* ------------------------------------------------------------------------
\* Python built-ins used by the code
\* ------------------------------------------------------------------------
Min(a, b) == IF a <= b THEN a ELSE b

Abs(a) == IF a < 0 THEN 0 - a ELSE a

None == <<>>

Some(v) == <<v>>

LowerTable ==
  ("A" :> "a") @@ ("B" :> "b") @@ ("C" :> "c") @@ ("D" :> "d") @@ ("E" :> "e")
  @@ ("F" :> "f") @@ ("G" :> "g") @@ ("H" :> "h") @@ ("I" :> "i") @@ ("J" :> "j")
  @@ ("K" :> "k") @@ ("L" :> "l") @@ ("M" :> "m") @@ ("N" :> "n") @@ ("O" :> "o")
  @@ ("P" :> "p") @@ ("Q" :> "q") @@ ("R" :> "r") @@ ("S" :> "s") @@ ("T" :> "t")
  @@ ("U" :> "u") @@ ("V" :> "v") @@ ("W" :> "w") @@ ("X" :> "x") @@ ("Y" :> "y")
  @@ ("Z" :> "z")

LowerChar(c) == IF c \in DOMAIN LowerTable THEN LowerTable[c] ELSE c

\* str.lower()
Lower(cs) == SubSeq([i \in 1..Len(cs) |-> LowerChar(cs[i])], 1, Len(cs))

\* str.replace(from, to) for one-character from and to
ReplaceChar(cs, from, to) ==
  SubSeq([i \in 1..Len(cs) |-> IF cs[i] = from THEN to ELSE cs[i]], 1, Len(cs))

\* str.replace(c, "")
RemoveChar(cs, c) == SelectSeq(cs, LAMBDA x : x # c)

\* needle in hay
Contains(hay, needle) ==
  \E i \in 0..(Len(hay) - Len(needle)) : \A k \in 1..Len(needle) : hay[i + k] = needle[k]

\* x in list
InList(x, list) == \E i \in 1..Len(list) : list[i] = x

\* dict.get(key, default) on an insertion-ordered dict kept as <<key, value>> pairs
DictGet(d, key, default) ==
  IF \E i \in 1..Len(d) : d[i][1] = key
  THEN d[CHOOSE i \in 1..Len(d) : d[i][1] = key][2]
  ELSE default

\* dict.get(key, default) on a dict kept as a record
RecGet(d, key, default) == IF key \in DOMAIN d THEN d[key] ELSE default

\* d[key] = value for a key already in the dict (keeps its position)
DictSet(d, key, value) ==
  SubSeq([i \in 1..Len(d) |-> IF d[i][1] = key THEN <<key, value>> ELSE d[i]], 1, Len(d))

\* max(d, key=d.get): the first key, in insertion order, holding the largest value
MaxKey(d) ==
  d[CHOOSE i \in 1..Len(d) :
      /\ \A j \in 1..Len(d) : d[j][2] <= d[i][2]
      /\ \A j \in 1..(i - 1) : d[j][2] < d[i][2]][1]

\* ------------------------------------------------------------------------
\* str as data: the characters of a string, one one-character string each
\* ------------------------------------------------------------------------
Chars(s) == SubSeq([i \in 1..Len(s) |-> SubSeq(s, i, i)], 1, Len(s))

\* ------------------------------------------------------------------------
\* Decimal numerals: float(), round(x, 1) and f"{x}" on one-decimal numbers
\* ------------------------------------------------------------------------
DigitChars == <<"0", "1", "2", "3", "4", "5", "6", "7", "8", "9">>

IsDigit(c) == \E d \in 1..10 : DigitChars[d] = c

DigitVal(c) == (CHOOSE d \in 1..10 : DigitChars[d] = c) - 1

AllDigits(cs) == \A i \in 1..Len(cs) : IsDigit(cs[i])

RECURSIVE StrInt(_)
\* int(cs) for a string of digits ("" counts as 0, as in the numeral "1.")
StrInt(cs) ==
  IF cs = <<>> THEN 0
  ELSE 10 * StrInt(SubSeq(cs, 1, Len(cs) - 1)) + DigitVal(cs[Len(cs)])

RECURSIVE IntStr(_)
\* str(n) for n >= 0
IntStr(n) ==
  IF n < 10 THEN <<DigitChars[n + 1]>>
  ELSE IntStr(n \div 10) \o <<DigitChars[(n % 10) + 1]>>

\* float(cs), in tenths, for the unsigned numerals "12", "12.", "12.3", ".3";
\* any other text of the modelled alphabet raises ValueError (ok = FALSE).
\* Numerals with more than one fractional digit are outside the model.
float(cs) ==
  LET dots == {i \in 1..Len(cs) : cs[i] = "."}
  IN  IF dots = {}
      THEN IF cs # <<>> /\ AllDigits(cs)
           THEN [ok |-> TRUE, tenths |-> 10 * StrInt(cs)]
           ELSE [ok |-> FALSE, tenths |-> 0]
      ELSE LET d == CHOOSE i \in dots : TRUE
               ip == SubSeq(cs, 1, d - 1)
               fp == SubSeq(cs, d + 1, Len(cs))
           IN  IF /\ Cardinality(dots) = 1
                  /\ AllDigits(ip) /\ AllDigits(fp)
                  /\ Len(ip) + Len(fp) > 0
                  /\ Len(fp) <= 1
               THEN [ok |-> TRUE, tenths |-> 10 * StrInt(ip) + StrInt(fp)]
               ELSE [ok |-> FALSE, tenths |-> 0]

\* the version written without the carry into the major number: 0.9 + 0.1 as "v0.10"
FormatVersion_no_carry(tenths) ==
  <<"v">> \o IntStr((tenths - 1) \div 10) \o <<".">>
         \o IntStr(tenths - 10 * ((tenths - 1) \div 10))

\* f"v{x}" for a float x given in tenths: repr(1.0) is "1.0"
FormatVersion(tenths) == <<"v">> \o IntStr(tenths \div 10) \o <<".">> \o IntStr(tenths % 10)

\* ------------------------------------------------------------------------
\* Seeded genomes (db/init_db.py); a dict is a sequence of <<key, value>>
\* pairs in insertion order, weights are hundredths
\* ------------------------------------------------------------------------
safety_genome_v01 ==
  [retrieval_preferences |->
     [year_window |-> <<2018, 2024>>,
      venue_weights |-> << <<"CVPR", 90>>, <<"ICCV", 90>>, <<"NeurIPS", 80>>,
                           <<"ICRA", 100>>, <<"IROS", 100>>, <<"CoRL", 100>> >>,
      keywords |-> <<"autonomous driving safety", "collision avoidance",
                     "robust perception", "safety-critical scenarios",
                     "fail-safe planning">>,
      method_categories |-> <<"safety_verification", "robust_control",
                              "uncertainty_estimation">>],
   reading_template |->
     [extract_fields |-> <<"method_name", "safety_guarantees", "failure_modes",
                           "robustness_metrics", "deployment_notes", "limitations">>],
   critique_focus |->
     [dimensions |-> <<"robustness", "rare_events_handling", "safety_metrics",
                       "worst_case_performance", "failure_recovery">>,
      weights |-> << <<"robustness", 100>>, <<"rare_events_handling", 100>>,
                     <<"safety_metrics", 100>>, <<"worst_case_performance", 90>>,
                     <<"failure_recovery", 80>> >>],
   synthesis_style |->
     [audience |-> "safety_engineers", max_tokens |-> 600,
      format |-> "structured", emphasis |-> "safety_critical_aspects"]]

performance_genome_v01 ==
  [retrieval_preferences |->
     [year_window |-> <<2020, 2024>>,
      venue_weights |-> << <<"CVPR", 100>>, <<"ICCV", 100>>, <<"NeurIPS", 100>>,
                           <<"ICML", 90>>, <<"ECCV", 90>>, <<"CoRL", 80>> >>,
      keywords |-> <<"autonomous driving SOTA", "real-time perception",
                     "efficient planning", "end-to-end learning",
                     "performance optimization">>,
      method_categories |-> <<"deep_learning", "reinforcement_learning",
                              "imitation_learning", "model_based_control">>],
   reading_template |->
     [extract_fields |-> <<"method_name", "performance_metrics", "computational_cost",
                           "benchmark_results", "deployment_notes", "scalability">>],
   critique_focus |->
     [dimensions |-> <<"accuracy", "speed", "computational_efficiency",
                       "sota_comparison", "scalability">>,
      weights |-> << <<"accuracy", 100>>, <<"speed", 100>>,
                     <<"computational_efficiency", 90>>, <<"sota_comparison", 90>>,
                     <<"scalability", 70>> >>],
   synthesis_style |->
     [audience |-> "ml_engineers", max_tokens |-> 600,
      format |-> "structured", emphasis |-> "performance_metrics"]]

\* ------------------------------------------------------------------------
\* JudgeAgent (agents/judge.py)
\* ------------------------------------------------------------------------
\* The canned recommendations_for_improvement of every decision
recommendations_for_improvement ==
  [SafetyLab |-> <<"Incorporate performance metrics in safety analysis",
                   "Balance safety guarantees with computational constraints",
                   "Include real-time processing considerations">>,
   PerformanceLab |-> <<"Strengthen safety analysis for edge cases",
                        "Add failure mode and risk assessment",
                        "Consider safety-performance trade-offs explicitly">>]

\* The winner rule with the boundary taken as a tie
winner_of_inclusive(safety_score, performance_score) ==
  LET score_diff == Abs(safety_score - performance_score)
  IN  IF score_diff <= 5 THEN "Tie"
      ELSE IF safety_score > performance_score THEN "SafetyLab"
      ELSE "PerformanceLab"

\* The winner rule of _default_judgment, on scores in hundredths
winner_of(safety_score, performance_score) ==
  LET score_diff == Abs(safety_score - performance_score)
  IN  IF score_diff < 5 THEN "Tie"
      ELSE IF safety_score > performance_score THEN "SafetyLab"
      ELSE "PerformanceLab"

\* _default_judgment with the relevance points of a medium event whatever
\* the severity
_default_judgment_flat(safety_lab_output, performance_lab_output, event_data) ==
  LET safety_score == Min(25 + 23 + 12 + 13 + 8, 100)
      performance_score == Min(25 + 15 + 18 + 14 + 8, 100)
  IN  [winner |-> winner_of(safety_score, performance_score),
       safety_lab_score |-> safety_score,
       performance_lab_score |-> performance_score,
       recommendations_for_improvement |-> recommendations_for_improvement]

\* _default_judgment: the two syntheses are not read
_default_judgment(safety_lab_output, performance_lab_output, event_data) ==
  LET severity == RecGet(event_data, "severity", "medium")
      event_type == RecGet(event_data, "event_type", "unknown")
      relevance == IF severity = "high" THEN <<28, 22>>
                   ELSE IF severity = "medium" THEN <<25, 25>>
                   ELSE <<22, 28>>
      safety_sum == relevance[1] + 23 + 12 + 13 + 8
      performance_sum == relevance[2] + 15 + 18 + 14 + 8
      safety_score == Min(safety_sum, 100)
      performance_score == Min(performance_sum, 100)
  IN  [winner |-> winner_of(safety_score, performance_score),
       safety_lab_score |-> safety_score,
       performance_lab_score |-> performance_score,
       reasoning |-> [event_type |-> event_type, severity |-> severity,
                      safety_score |-> safety_score,
                      performance_score |-> performance_score,
                      winner |-> winner_of(safety_score, performance_score)],
       safety_lab_strengths |-> <<"Comprehensive collision avoidance strategies",
                                  "Strong risk assessment and failure mode analysis",
                                  "Robust safety guarantees for edge cases">>,
       safety_lab_weaknesses |-> <<"May prioritize safety over computational efficiency",
                                   "Could benefit from more performance benchmarks">>,
       performance_lab_strengths |-> <<"Highly optimized algorithms with fast inference",
                                       "Strong benchmark performance on standard datasets",
                                       "Efficient resource utilization">>,
       performance_lab_weaknesses |-> <<"Less emphasis on rare safety-critical scenarios",
                                        "Could strengthen failure mode coverage">>,
       recommendations_for_improvement |-> recommendations_for_improvement]

\* a judge that scores a severity it does not know as medium
judge_unknown_medium(safety_lab_output, performance_lab_output, event_data) ==
  _default_judgment(safety_lab_output, performance_lab_output,
                    IF RecGet(event_data, "severity", "medium") \in {"high", "medium", "low"}
                    THEN event_data
                    ELSE [event_data EXCEPT !.severity = "medium"])

\* a judge that calls a tie when the two syntheses are the same
judge_reading(safety_lab_output, performance_lab_output, event_data) ==
  [_default_judgment(safety_lab_output, performance_lab_output, event_data)
     EXCEPT !.winner = IF safety_lab_output = performance_lab_output THEN "Tie" ELSE @]

\* judge: the prompt built from the two syntheses is not used
judge(safety_lab_output, performance_lab_output, event_data) ==
  _default_judgment(safety_lab_output, performance_lab_output, event_data)

\* ------------------------------------------------------------------------
\* MetaLearnerAgent (agents/meta_learner.py)
\* ------------------------------------------------------------------------
\* A change list joined by "; ", or the text "No changes" for an empty list.
\* Each change text is kept as a record of its template and arguments.
NoChanges == <<[text |-> "No changes"]>>

JoinChanges(changes) == IF changes # <<>> THEN changes ELSE NoChanges

\* the keywords to adopt without the cut at two
new_keywords_of_uncut(winning_keywords, current_keywords) ==
  SelectSeq(winning_keywords, LAMBDA kw : ~InList(kw, current_keywords))

\* [kw for kw in winning_keywords if kw not in current_keywords][:2]
new_keywords_of(winning_keywords, current_keywords) ==
  LET fresh == SelectSeq(winning_keywords, LAMBDA kw : ~InList(kw, current_keywords))
  IN  SubSeq(fresh, 1, Min(2, Len(fresh)))

RECURSIVE adjust_weights(_, _, _, _, _)
\* for rec in recommendations: for dimension in weights.keys(): ...
\* r, d: position of the loops; acc: the weights dict and the changes so far
adjust_weights(recommendations, acc, r, d, n) ==
  IF r > Len(recommendations) THEN acc
  ELSE IF d > n THEN adjust_weights(recommendations, acc, r + 1, 1, n)
  ELSE LET rec_lower == Lower(Chars(recommendations[r]))
           dimension == acc.weights[d][1]
           old_weight == acc.weights[d][2]
           new_weight == Min(old_weight + 10, 100)
       IN  IF Contains(rec_lower, ReplaceChar(Chars(dimension), "_", " "))
           THEN adjust_weights(recommendations,
                  [weights |-> DictSet(acc.weights, dimension, new_weight),
                   changes |-> Append(acc.changes,
                                 [text |-> "Increased weight for", dimension |-> dimension,
                                  old |-> old_weight, new |-> new_weight])],
                  r, d + 1, n)
           ELSE adjust_weights(recommendations, acc, r, d + 1, n)

\* any("latest" in rec.lower() or "recent" in rec.lower() for rec in recommendations)
mentions_recent(recommendations) ==
  \E r \in 1..Len(recommendations) :
     \/ Contains(Lower(Chars(recommendations[r])), <<"l", "a", "t", "e", "s", "t">>)
     \/ Contains(Lower(Chars(recommendations[r])), <<"r", "e", "c", "e", "n", "t">>)

\* _update_losing_genome: mutates genome, reads winning_genome; the result is
\* the genome after the call and the returned change list
_update_losing_genome(genome, winning_genome, recommendations) ==
  LET returned(g3, changes) ==
        [genome |-> g3,
         changes |-> IF changes # <<>> THEN changes
                     ELSE <<[text |-> "Minor parameter adjustments"]>>]
      \* line 125-129: the year window
      windowed(g2, changes, raise_window) ==
        returned(IF raise_window
                 THEN [g2 EXCEPT !.retrieval_preferences.year_window[1] = 2020]
                 ELSE g2,
                 IF raise_window
                 THEN Append(changes, [text |-> "Updated year window to focus on more recent research (2020-2024)"])
                 ELSE changes)
      \* line 112-123: the critique weights
      weighted(g1, adj) ==
        windowed([g1 EXCEPT !.critique_focus.weights = adj.weights], adj.changes,
                 /\ mentions_recent(recommendations)
                 /\ g1.retrieval_preferences.year_window[1] < 2020)
      keyworded(g1, c1) ==
        weighted(g1, adjust_weights(recommendations,
                                    [weights |-> g1.critique_focus.weights, changes |-> c1],
                                    1, 1, Len(g1.critique_focus.weights)))
      \* line 102-109: the keywords
      with_keywords(new_keywords) ==
        keyworded(IF new_keywords # <<>>
                  THEN [genome EXCEPT !.retrieval_preferences.keywords = @ \o new_keywords]
                  ELSE genome,
                  IF new_keywords # <<>>
                  THEN <<[text |-> "Added keywords", keywords |-> new_keywords]>>
                  ELSE <<>>)
  IN  with_keywords(new_keywords_of(winning_genome.retrieval_preferences.keywords,
                                    genome.retrieval_preferences.keywords))

\* the winning rule without the cap at 1.0
_reinforce_winning_genome_uncapped(genome) ==
  LET weights == genome.critique_focus.weights
  IN  IF weights # <<>>
      THEN LET max_dim == MaxKey(weights)
               old_weight == DictGet(weights, max_dim, 0)
           IN  [genome |-> [genome EXCEPT !.critique_focus.weights =
                                             DictSet(weights, max_dim, old_weight + 5)],
                changes |-> <<[text |-> "Reinforced", dimension |-> max_dim,
                               old |-> old_weight, new |-> old_weight + 5]>>]
      ELSE [genome |-> genome, changes |-> <<[text |-> "Maintained successful strategy"]>>]

\* the winning rule raising every weight that equals the maximum
_reinforce_winning_genome_every(genome) ==
  LET weights == genome.critique_focus.weights
      top == DictGet(weights, MaxKey(weights), 0)
  IN  IF weights # <<>>
      THEN [genome |-> [genome EXCEPT !.critique_focus.weights =
                          [d \in 1..Len(weights) |->
                             IF weights[d][2] = top
                             THEN <<weights[d][1], Min(top + 5, 100)>> ELSE weights[d]]],
            changes |-> <<[text |-> "Reinforced", dimension |-> MaxKey(weights),
                           old |-> top, new |-> Min(top + 5, 100)]>>]
      ELSE [genome |-> genome, changes |-> <<[text |-> "Maintained successful strategy"]>>]

\* _reinforce_winning_genome
_reinforce_winning_genome(genome) ==
  LET weights == genome.critique_focus.weights
  IN  IF weights # <<>>
      THEN LET max_dim == MaxKey(weights)
               old_weight == DictGet(weights, max_dim, 0)
               new_weight == Min(old_weight + 5, 100)
           IN  [genome |-> [genome EXCEPT !.critique_focus.weights =
                                             DictSet(weights, max_dim, new_weight)],
                changes |-> <<[text |-> "Reinforced", dimension |-> max_dim,
                               old |-> old_weight, new |-> new_weight]>>]
      ELSE [genome |-> genome, changes |-> <<[text |-> "Maintained successful strategy"]>>]

\* the tie rule returning no text when there is nothing to adjust
_minor_adjustments_silent(genome) ==
  LET venue_weights == genome.retrieval_preferences.venue_weights
  IN  IF venue_weights # <<>>
      THEN LET max_venue == MaxKey(venue_weights)
               old_weight == DictGet(venue_weights, max_venue, 0)
               new_weight == Min(old_weight + 5, 100)
           IN  [genome |-> [genome EXCEPT !.retrieval_preferences.venue_weights =
                                             DictSet(venue_weights, max_venue, new_weight)],
                changes |-> <<[text |-> "Increased venue weight", venue |-> max_venue,
                               old |-> old_weight, new |-> new_weight]>>]
      ELSE [genome |-> genome, changes |-> <<>>]

\* the tie rule without the cap at 1.0
_minor_adjustments_uncapped(genome) ==
  LET venue_weights == genome.retrieval_preferences.venue_weights
  IN  IF venue_weights # <<>>
      THEN LET max_venue == MaxKey(venue_weights)
               old_weight == DictGet(venue_weights, max_venue, 0)
           IN  [genome |-> [genome EXCEPT !.retrieval_preferences.venue_weights =
                                             DictSet(venue_weights, max_venue, old_weight + 5)],
                changes |-> <<[text |-> "Increased venue weight", venue |-> max_venue,
                               old |-> old_weight, new |-> old_weight + 5]>>]
      ELSE [genome |-> genome, changes |-> <<[text |-> "No significant changes"]>>]

\* _minor_adjustments
_minor_adjustments(genome) ==
  LET venue_weights == genome.retrieval_preferences.venue_weights
  IN  IF venue_weights # <<>>
      THEN LET max_venue == MaxKey(venue_weights)
               old_weight == DictGet(venue_weights, max_venue, 0)
               new_weight == Min(old_weight + 5, 100)
           IN  [genome |-> [genome EXCEPT !.retrieval_preferences.venue_weights =
                                             DictSet(venue_weights, max_venue, new_weight)],
                changes |-> <<[text |-> "Increased venue weight", venue |-> max_venue,
                               old |-> old_weight, new |-> new_weight]>>]
      ELSE [genome |-> genome, changes |-> <<[text |-> "No significant changes"]>>]

\* An assignment in place of the copy: the new name is the old object
deepcopy_alias(heap, obj, fresh) ==
  [ref |-> obj, heap |-> heap]

\* copy.deepcopy(heap[obj]) into a new object named fresh.  The heap maps the
\* names of the genome dicts alive during learn to their current contents.
deepcopy(heap, obj, fresh) ==
  [ref |-> fresh, heap |-> (fresh :> heap[obj]) @@ heap]

\* the losing rule applied only to a lab whose rival won
needs_improvement_lost_only(winner, rival, score) == winner = rival

\* learn, lines 48 and 64: winner == <the rival lab> or <the lab's score> < 0.7
needs_improvement(winner, rival, score) == winner = rival \/ score < 70

\* learn, on a heap holding the caller's dicts "safety_genome" and
\* "performance_genome"; returns the tuple of the source together with the
\* final heap, in which the caller's two dicts can be inspected
learn(judge_decision, heap0) ==
  LET winner == judge_decision.winner
      safety_score == judge_decision.safety_lab_score
      performance_score == judge_decision.performance_lab_score
      recommendations == judge_decision.recommendations_for_improvement
      copied(new_safety_genome, new_performance_genome, h0) ==
        LET returned(h, safety_changes, performance_changes) ==
              [new_safety_ref |-> new_safety_genome,
               new_performance_ref |-> new_performance_genome,
               new_safety_genome |-> h[new_safety_genome],
               new_performance_genome |-> h[new_performance_genome],
               safety_changes |-> JoinChanges(safety_changes),
               performance_changes |-> JoinChanges(performance_changes),
               heap |-> h]
            \* If tie, make minor adjustments to both
            tie_performance(h, safety_changes, tp) ==
              returned([h EXCEPT ![new_performance_genome] = tp.genome],
                       safety_changes, tp.changes)
            tie_safety(h, ts) ==
              tie_performance([h EXCEPT ![new_safety_genome] = ts.genome], ts.changes,
                              _minor_adjustments(
                                 [h EXCEPT ![new_safety_genome] = ts.genome][new_performance_genome]))
            tie(h, safety_changes, performance_changes) ==
              IF winner = "Tie"
              THEN tie_safety(h, _minor_adjustments(h[new_safety_genome]))
              ELSE returned(h, safety_changes, performance_changes)
            \* Update PerformanceLab genome
            performance_updated(h, safety_changes, p) ==
              tie([h EXCEPT ![new_performance_genome] = p.genome], safety_changes, p.changes)
            update_performance(h, safety_changes) ==
              performance_updated(h, safety_changes,
                IF needs_improvement(winner, "SafetyLab", performance_score)
                THEN _update_losing_genome(h[new_performance_genome], h["safety_genome"],
                                           recommendations.PerformanceLab)
                ELSE IF winner = "PerformanceLab"
                THEN _reinforce_winning_genome(h[new_performance_genome])
                ELSE [genome |-> h[new_performance_genome], changes |-> <<>>])
            \* Update SafetyLab genome
            safety_updated(h, s) ==
              update_performance([h EXCEPT ![new_safety_genome] = s.genome], s.changes)
        IN  safety_updated(h0,
              IF needs_improvement(winner, "PerformanceLab", safety_score)
              THEN _update_losing_genome(h0[new_safety_genome], h0["performance_genome"],
                                         recommendations.SafetyLab)
              ELSE IF winner = "SafetyLab"
              THEN _reinforce_winning_genome(h0[new_safety_genome])
              ELSE [genome |-> h0[new_safety_genome], changes |-> <<>>])
      copied_performance(cs, cp) == copied(cs.ref, cp.ref, cp.heap)
      copied_safety(cs) ==
        copied_performance(cs, deepcopy(cs.heap, "performance_genome", "new_performance_genome"))
  IN  copied_safety(deepcopy(heap0, "safety_genome", "new_safety_genome"))

\* create_new_genome_version without the 0.1 added to the version
create_new_genome_version_same(genome_data, lab_name, current_version, change_description) ==
  LET new_version ==
        IF current_version = None THEN <<"v", "0", ".", "1">>
        ELSE LET version_num == float(RemoveChar(current_version[1], "v"))
             IN  IF version_num.ok
                 THEN FormatVersion(version_num.tenths)
                 ELSE <<"v", "0", ".", "2">>
  IN  [new_version |-> new_version,
       genome_dict |-> [lab_name |-> lab_name,
                        version |-> new_version,
                        genome_data |-> genome_data,
                        parent_version |-> current_version,
                        change_description |-> change_description,
                        is_active |-> 1]]

\* create_new_genome_version with the parent link set to the new version
create_new_genome_version_self(genome_data, lab_name, current_version, change_description) ==
  LET new_version ==
        IF current_version = None THEN <<"v", "0", ".", "1">>
        ELSE LET version_num == float(RemoveChar(current_version[1], "v"))
             IN  IF version_num.ok
                 THEN FormatVersion(version_num.tenths + 1)
                 ELSE <<"v", "0", ".", "2">>
  IN  [new_version |-> new_version,
       genome_dict |-> [lab_name |-> lab_name,
                        version |-> new_version,
                        genome_data |-> genome_data,
                        parent_version |-> Some(new_version),
                        change_description |-> change_description,
                        is_active |-> 1]]

\* create_new_genome_version; current_version is None or Some(version string)
create_new_genome_version(genome_data, lab_name, current_version, change_description) ==
  LET new_version ==
        IF current_version = None THEN <<"v", "0", ".", "1">>
        ELSE LET version_num == float(RemoveChar(current_version[1], "v"))
             IN  IF version_num.ok
                 THEN FormatVersion(version_num.tenths + 1)
                 ELSE <<"v", "0", ".", "2">>
  IN  [new_version |-> new_version,
       genome_dict |-> [lab_name |-> lab_name,
                        version |-> new_version,
                        genome_data |-> genome_data,
                        parent_version |-> current_version,
                        change_description |-> change_description,
                        is_active |-> 1]]

\* ------------------------------------------------------------------------
\* More built-ins: rationals for float quotients, list.sort, str.split, str.strip
\* ------------------------------------------------------------------------
\* a > b and a = b on quotients [num, den] with den > 0
RatGreater(a, b) == a.num * b.den > b.num * a.den

RatEqual(a, b) == a.num * b.den = b.num * a.den

\* list.sort that puts equal keys in reverse order
UnstableSortDesc(items, keys) ==
  LET n == Len(items)
      pos(i) == Cardinality({j \in 1..n : RatGreater(keys[j], keys[i])})
                + Cardinality({j \in (i + 1)..n : RatEqual(keys[j], keys[i])}) + 1
  IN  SubSeq([k \in 1..n |-> items[CHOOSE i \in 1..n : pos(i) = k]], 1, n)

\* items.sort(key=..., reverse=True): stable, descending; keys[i] is the key of items[i]
StableSortDesc(items, keys) ==
  LET n == Len(items)
      pos(i) == Cardinality({j \in 1..n : RatGreater(keys[j], keys[i])})
                + Cardinality({j \in 1..(i - 1) : RatEqual(keys[j], keys[i])}) + 1
  IN  SubSeq([k \in 1..n |-> items[CHOOSE i \in 1..n : pos(i) = k]], 1, n)

RECURSIVE Split(_, _)
\* cs.split(sep) for a one-character separator
Split(cs, sep) ==
  IF \E i \in 1..Len(cs) : cs[i] = sep
  THEN LET i == CHOOSE k \in 1..Len(cs) : cs[k] = sep /\ \A j \in 1..(k - 1) : cs[j] # sep
       IN  <<SubSeq(cs, 1, i - 1)>> \o Split(SubSeq(cs, i + 1, Len(cs)), sep)
  ELSE <<cs>>

IsSpace(c) == c \in {" ", "\n", "\t"}

\* cs.strip()
Strip(cs) ==
  LET keep == {i \in 1..Len(cs) : ~IsSpace(cs[i])}
  IN  IF keep = {} THEN <<>>
      ELSE SubSeq(cs, CHOOSE i \in keep : \A j \in keep : i <= j,
                      CHOOSE i \in keep : \A j \in keep : j <= i)

\* d.get(key) on a dict of numbers: None when the key is absent
OptGet(d, key) ==
  IF \E i \in 1..Len(d) : d[i][1] = key THEN Some(DictGet(d, key, 0)) ELSE None

\* a or b on optional numbers: a when it is truthy (not None, not 0)
Truthy(opt) == opt # None /\ opt[1] # 0

OrElse(a, b) == IF Truthy(a) THEN a ELSE b

\* ------------------------------------------------------------------------
\* The text-generation collaborator (agents/llm_client.py) and json.loads
\* ------------------------------------------------------------------------
\* A prompt is the sequence of its pieces: the fixed texts of the template and
\* the values formatted into it (of a json.dumps, the strings only).  Pieces
\* are separated by punctuation, line breaks or JSON quoting, so none of the
\* words the mock looks for lies across two pieces.
prompt_has(prompt, word) == \E k \in 1..Len(prompt) : Contains(Lower(prompt[k]), Chars(word))

\* Texts: a JSON object is a dict, kept as <<key, value>> pairs
mock_planning_safety ==
  << <<"sub_questions",
       <<Chars("What are the latest collision avoidance methods for cut-in scenarios?"),
         Chars("How do robust perception systems handle adverse weather?"),
         Chars("What safety verification techniques exist for autonomous planning?")>> >>,
     <<"search_strategy", Chars("Focus on safety-critical methods with proven robustness")>> >>

mock_planning_other ==
  << <<"sub_questions",
       <<Chars("What are the SOTA end-to-end learning methods for autonomous driving?"),
         Chars("How can we optimize real-time performance for perception pipelines?"),
         Chars("What are the latest benchmarks for autonomous driving performance?")>> >>,
     <<"search_strategy", Chars("Focus on high-performance methods with strong benchmark results")>> >>

\* scores are in 1/3000
mock_critique_safety ==
  << <<"scores", << <<"robustness", 2550>>, <<"rare_events_handling", 2340>>,
                    <<"safety_metrics", 2700>>, <<"worst_case_performance", 2250>> >> >>,
     <<"strengths", <<"Strong theoretical safety guarantees",
                      "Proven robustness in edge cases",
                      "Comprehensive failure mode analysis">> >>,
     <<"weaknesses", <<"Limited real-world deployment data",
                       "Computational overhead in safety verification">> >> >>

mock_critique_other ==
  << <<"scores", << <<"accuracy", 2760>>, <<"speed", 2640>>,
                    <<"computational_efficiency", 2550>>, <<"sota_comparison", 2700>> >> >>,
     <<"strengths", <<"State-of-the-art benchmark performance",
                      "Real-time inference capability",
                      "Scalable architecture">> >>,
     <<"weaknesses", <<"Limited safety guarantees",
                       "Performance degradation in rare scenarios">> >> >>

mock_synthesis ==
  << <<"summary", Chars("Based on the research analysis, the recommended approach combines robust perception with verified planning algorithms.")>>,
     <<"key_methods", <<Chars("Multi-modal sensor fusion for robust perception"),
                        Chars("Model predictive control with safety constraints"),
                        Chars("Uncertainty-aware decision making")>> >>,
     <<"deployment_recommendations",
       <<Chars("Implement gradual rollout with extensive testing"),
         Chars("Monitor edge cases and failure modes"),
         Chars("Maintain human oversight for critical scenarios")>> >> >>

\* _mock_generate: the response text, by what json.loads makes of it
_mock_generate(prompt) ==
  IF prompt_has(prompt, "research plan") \/ prompt_has(prompt, "sub-questions")
  THEN IF prompt_has(prompt, "safety")
       THEN [form |-> "object", value |-> mock_planning_safety]
       ELSE [form |-> "object", value |-> mock_planning_other]
  ELSE IF prompt_has(prompt, "critique") \/ prompt_has(prompt, "evaluate")
  THEN IF prompt_has(prompt, "safety")
       THEN [form |-> "object", value |-> mock_critique_safety]
       ELSE [form |-> "object", value |-> mock_critique_other]
  ELSE IF prompt_has(prompt, "synthesize") \/ prompt_has(prompt, "summary")
  THEN [form |-> "object", value |-> mock_synthesis]
  ELSE [form |-> "text"]

\* What a collaborator does on one call
Behaviours == {"mock", "text", "array", "empty_object", "raise"}

\* llm_client.generate(prompt, context) under a behaviour: raised, or the
\* response text (form "text": not JSON; "array": JSON, not an object)
generate(behaviour, prompt) ==
  CASE behaviour = "mock" -> [raised |-> FALSE, response |-> _mock_generate(prompt)]
    [] behaviour = "text" -> [raised |-> FALSE, response |-> [form |-> "text"]]
    [] behaviour = "array" -> [raised |-> FALSE, response |-> [form |-> "array"]]
    [] behaviour = "empty_object" ->
         [raised |-> FALSE, response |-> [form |-> "object", value |-> <<>>]]
    [] behaviour = "raise" -> [raised |-> TRUE]

\* json.loads(response) raises json.JSONDecodeError
JSONDecodeError(response) == response.form = "text"

\* ', '.join(texts)
JoinComma(texts) ==
  LET RECURSIVE J(_)
      J(k) == IF k > Len(texts) THEN <<>>
              ELSE (IF k > 1 THEN <<",", " ">> ELSE <<>>) \o texts[k] \o J(k + 1)
  IN  J(1)

\* d[key] = value on a dict
DictPut(d, key, value) ==
  IF \E i \in 1..Len(d) : d[i][1] = key THEN DictSet(d, key, value)
  ELSE Append(d, <<key, value>>)

\* ------------------------------------------------------------------------
\* PlannerAgent (agents/planner.py)
\* ------------------------------------------------------------------------
_build_planning_prompt(lab_name, genome, event_data) ==
  LET genome_keywords == genome.retrieval_preferences.keywords
      critique_dimensions == genome.critique_focus.dimensions
  IN  << Chars("\nYou are a research planner for "), Chars(lab_name),
         Chars(".\n\nEvent Context:\n- Type: "), Chars(event_data.event_type),
         Chars("\n- Severity: "), Chars(event_data.severity),
         Chars("\n- Weather: "), Chars(event_data.weather),
         Chars("\n\nLab Focus Areas: "),
         JoinComma([i \in 1..Len(genome_keywords) |-> Chars(genome_keywords[i])]),
         Chars("\nEvaluation Dimensions: "),
         JoinComma([i \in 1..Len(critique_dimensions) |-> Chars(critique_dimensions[i])]),
         Chars("\n\nGenerate a research plan with 3-5 specific sub-questions to investigate for this scenario.\nFocus on "),
         Chars(lab_name),
         Chars("'s priorities.\n\nReturn JSON format:\n{\n    \"sub_questions\": [\"question1\", \"question2\", ...],\n    \"search_strategy\": \"brief strategy description\"\n}\n") >>

_extract_keywords(genome, event_data) ==
  LET genome_keywords == genome.retrieval_preferences.keywords
      k0 == [i \in 1..Len(genome_keywords) |-> Chars(genome_keywords[i])]
      k1 == IF event_data.event_type # ""
            THEN Append(k0, ReplaceChar(Chars(event_data.event_type), "_", " "))
            ELSE k0
  IN  IF event_data.weather # "" /\ event_data.weather # "clear"
      THEN Append(k1, Chars(event_data.weather))
      ELSE k1

_get_priority_dimensions(genome) == genome.critique_focus.dimensions

_default_plan(lab_name, event_data) ==
  IF lab_name = "SafetyLab"
  THEN << <<"sub_questions",
            <<Chars("What are the safety-critical aspects of ") \o Chars(event_data.event_type)
                 \o Chars(" scenarios?"),
              Chars("What robust methods exist for handling this scenario?"),
              Chars("What are the failure modes and mitigation strategies?")>> >>,
          <<"search_strategy", Chars("Focus on safety verification and robustness")>> >>
  ELSE << <<"sub_questions",
            <<Chars("What are the SOTA methods for ") \o Chars(event_data.event_type)
                 \o Chars(" scenarios?"),
              Chars("How can we optimize performance for this scenario?"),
              Chars("What are the benchmark results for similar scenarios?")>> >>,
          <<"search_strategy", Chars("Focus on performance and efficiency")>> >>

\* plan with a second generate call when the first response is not JSON
plan_retry(lab_name, genome, event_data, behaviour) ==
  LET generated(g) ==
        IF g.raised THEN [raised |-> TRUE, calls |-> 1]
        ELSE IF g.response.form = "array" THEN [raised |-> TRUE, calls |-> 1]
        ELSE LET from_llm == ~JSONDecodeError(g.response)
                 p == IF from_llm THEN g.response.value ELSE _default_plan(lab_name, event_data)
             IN  [raised |-> FALSE, calls |-> IF from_llm THEN 1 ELSE 2,
                  value |-> [lab_name |-> lab_name,
                             event_type |-> event_data.event_type,
                             sub_questions |-> DictGet(p, "sub_questions", <<>>),
                             search_strategy |-> DictGet(p, "search_strategy", <<>>),
                             keywords |-> _extract_keywords(genome, event_data),
                             priority_dimensions |-> _get_priority_dimensions(genome)]]
  IN  generated(generate(behaviour, _build_planning_prompt(lab_name, genome, event_data)))

\* plan: raised when generate raises or the parsed JSON has no .get
\* (AttributeError); calls counts the generate calls made
plan(lab_name, genome, event_data, behaviour) ==
  LET generated(g) ==
        IF g.raised THEN [raised |-> TRUE, calls |-> 1]
        ELSE IF g.response.form = "array" THEN [raised |-> TRUE, calls |-> 1]
        ELSE LET from_llm == ~JSONDecodeError(g.response)
                 p == IF from_llm THEN g.response.value ELSE _default_plan(lab_name, event_data)
             IN  [raised |-> FALSE, calls |-> 1,
                  value |-> [lab_name |-> lab_name,
                             event_type |-> event_data.event_type,
                             sub_questions |-> DictGet(p, "sub_questions", <<>>),
                             search_strategy |-> DictGet(p, "search_strategy", <<>>),
                             keywords |-> _extract_keywords(genome, event_data),
                             priority_dimensions |-> _get_priority_dimensions(genome)]]
  IN  generated(generate(behaviour, _build_planning_prompt(lab_name, genome, event_data)))

\* ------------------------------------------------------------------------
\* RetrieverAgent (agents/retriever.py); key_results are in thousandths
\* ------------------------------------------------------------------------
_get_safety_papers ==
  << [title |-> "Safe Reinforcement Learning for Autonomous Driving with Reachability Analysis",
      authors |-> <<"Smith, J.", "Johnson, A.">>,
      venue |-> "ICRA", year |-> 2023, method_category |-> "safety_verification",
      abstract |-> "We propose a safe RL framework that uses reachability analysis to ensure collision-free behavior...",
      key_results |-> << <<"collision_rate", 1>>, <<"safety_violations", 0>>,
                         <<"test_scenarios", 10000000>> >>,
      deployment_notes |-> "Requires offline reachability set computation; suitable for structured environments"],
     [title |-> "Robust Perception Under Adverse Weather Using Multi-Modal Sensor Fusion",
      authors |-> <<"Chen, L.", "Wang, Y.">>,
      venue |-> "CVPR", year |-> 2023, method_category |-> "robust_perception",
      abstract |-> "Multi-modal fusion approach combining camera, LiDAR, and radar for robust perception...",
      key_results |-> << <<"detection_accuracy_rain", 920>>, <<"detection_accuracy_fog", 880>>,
                         <<"fps", 25000>> >>,
      deployment_notes |-> "Requires calibrated multi-modal sensors; proven in real-world testing"],
     [title |-> "Uncertainty-Aware Planning for Safety-Critical Autonomous Driving",
      authors |-> <<"Brown, M.", "Davis, K.">>,
      venue |-> "CoRL", year |-> 2022, method_category |-> "uncertainty_estimation",
      abstract |-> "Planning framework that explicitly models uncertainty in perception and prediction...",
      key_results |-> << <<"safety_score", 950>>, <<"comfort_score", 820>>,
                         <<"planning_time_ms", 50000>> >>,
      deployment_notes |-> "Suitable for urban environments; requires uncertainty-calibrated perception"] >>

_get_performance_papers ==
  << [title |-> "End-to-End Autonomous Driving with Transformers",
      authors |-> <<"Zhang, X.", "Liu, H.">>,
      venue |-> "NeurIPS", year |-> 2023, method_category |-> "end_to_end_learning",
      abstract |-> "Transformer-based end-to-end driving model achieving SOTA performance on nuScenes...",
      key_results |-> << <<"nuscenes_score", 680>>, <<"planning_accuracy", 910>>,
                         <<"fps", 30000>> >>,
      deployment_notes |-> "Requires large-scale training data; excellent generalization"],
     [title |-> "Real-Time 3D Object Detection with Efficient Neural Architectures",
      authors |-> <<"Kim, S.", "Park, J.">>,
      venue |-> "CVPR", year |-> 2023, method_category |-> "efficient_perception",
      abstract |-> "Efficient 3D detection network optimized for real-time inference on edge devices...",
      key_results |-> << <<"map_score", 720>>, <<"fps", 60000>>, <<"latency_ms", 16000>> >>,
      deployment_notes |-> "Optimized for edge deployment; minimal computational overhead"],
     [title |-> "Model Predictive Control with Learned Dynamics for Autonomous Driving",
      authors |-> <<"Anderson, R.", "Taylor, S.">>,
      venue |-> "ICRA", year |-> 2022, method_category |-> "model_based_control",
      abstract |-> "MPC framework with learned vehicle dynamics achieving superior trajectory tracking...",
      key_results |-> << <<"tracking_error_m", 150>>, <<"comfort_score", 890>>,
                         <<"planning_time_ms", 30000>> >>,
      deployment_notes |-> "Requires vehicle-specific dynamics learning; excellent control performance"] >>

\* retrieve without the year filter
retrieve_unfiltered(lab_name, genome, research_plan) ==
  LET retrieval_preferences == RecGet(genome, "retrieval_preferences", <<>>)
      venue_weights == RecGet(retrieval_preferences, "venue_weights", <<>>)
      catalog == IF lab_name = "SafetyLab" THEN _get_safety_papers ELSE _get_performance_papers
      papers == [i \in 1..Len(catalog) |->
                   catalog[i] @@ [relevance_score |-> DictGet(venue_weights, catalog[i].venue, 50)]]
      keys == [i \in 1..Len(catalog) |-> [num |-> papers[i].relevance_score, den |-> 1]]
      sorted == StableSortDesc(papers, keys)
  IN  SubSeq(sorted, 1, Min(10, Len(sorted)))

\* retrieve returning one paper per keyword of the plan, if it has any
retrieve_per_keyword(lab_name, genome, research_plan) ==
  LET keywords == RecGet(research_plan, "keywords", <<>>)
      papers == retrieve_unfiltered(lab_name, genome, research_plan)
  IN  IF keywords = <<>> THEN papers ELSE SubSeq(papers, 1, Min(Len(keywords), Len(papers)))

\* retrieve: the research plan's keywords are read and not used
retrieve(lab_name, genome, research_plan) ==
  LET retrieval_preferences == RecGet(genome, "retrieval_preferences", <<>>)
      year_window == RecGet(retrieval_preferences, "year_window", <<2018, 2024>>)
      venue_weights == RecGet(retrieval_preferences, "venue_weights", <<>>)
      catalog == IF lab_name = "SafetyLab" THEN _get_safety_papers ELSE _get_performance_papers
      in_window == SelectSeq(catalog, LAMBDA p : year_window[1] <= p.year /\ p.year <= year_window[2])
      papers == [i \in 1..Len(in_window) |->
                   in_window[i] @@ [relevance_score |-> DictGet(venue_weights, in_window[i].venue, 50)]]
      keys == [i \in 1..Len(in_window) |-> [num |-> papers[i].relevance_score, den |-> 1]]
      sorted == StableSortDesc(papers, keys)
  IN  SubSeq(sorted, 1, Min(10, Len(sorted)))

\* ------------------------------------------------------------------------
\* ReaderAgent (agents/reader.py)
\* ------------------------------------------------------------------------
\* the clauses of text (split on ";") that contain one of the keywords
matching_clauses(text, keywords) ==
  LET sentences == Split(text, ";")
      hit(sentence) == \E k \in 1..Len(keywords) : Contains(Lower(sentence), Chars(keywords[k]))
      kept == SelectSeq(sentences, hit)
  IN  [i \in 1..Len(kept) |-> Strip(kept[i])]

_extract_failure_modes(text) ==
  LET failure_modes == matching_clauses(text, <<"requires", "limited", "fails", "degrades">>)
  IN  IF failure_modes # <<>> THEN failure_modes
      ELSE <<Chars("No specific failure modes documented")>>

_extract_limitations(text) ==
  LET limitations == matching_clauses(text, <<"requires", "limited", "only suitable", "not suitable">>)
  IN  IF limitations # <<>> THEN limitations
      ELSE <<Chars("No specific limitations documented")>>

\* the value stored under extracted_info[field]
extract_field(paper, field) ==
  LET results == paper.key_results
      notes == Chars(paper.deployment_notes)
  IN  CASE field = "method_name" -> Split(Chars(paper.title), ":")[1]
        [] field = "safety_guarantees" ->
             [collision_rate |-> OptGet(results, "collision_rate"),
              safety_violations |-> OptGet(results, "safety_violations"),
              safety_score |-> OptGet(results, "safety_score")]
        [] field = "failure_modes" -> _extract_failure_modes(notes)
        [] field = "robustness_metrics" ->
             [detection_accuracy_rain |-> OptGet(results, "detection_accuracy_rain"),
              detection_accuracy_fog |-> OptGet(results, "detection_accuracy_fog"),
              worst_case_performance |-> OptGet(results, "worst_case_performance")]
        [] field = "performance_metrics" ->
             [accuracy |-> OrElse(OptGet(results, "nuscenes_score"), OptGet(results, "map_score")),
              fps |-> OptGet(results, "fps"),
              latency_ms |-> OptGet(results, "latency_ms"),
              planning_time_ms |-> OptGet(results, "planning_time_ms")]
        [] field = "computational_cost" ->
             [fps |-> OptGet(results, "fps"),
              latency_ms |-> OptGet(results, "latency_ms")]
        [] field = "benchmark_results" -> results
        [] field = "deployment_notes" -> notes
        [] field = "limitations" -> _extract_limitations(notes)
        [] field = "scalability" ->
             IF Contains(Lower(notes), Chars("scalable")) THEN "scalable" ELSE "limited"

KnownFields ==
  {"method_name", "safety_guarantees", "failure_modes", "robustness_metrics",
   "performance_metrics", "computational_cost", "benchmark_results",
   "deployment_notes", "limitations", "scalability"}

\* _extract_fields: unknown field names are skipped; a field named twice keeps
\* its first position in the dict
_extract_fields(paper, fields) ==
  LET known == SelectSeq(fields, LAMBDA f : f \in KnownFields)
      firsts == {i \in 1..Len(known) : \A j \in 1..(i - 1) : known[j] # known[i]}
      order == SelectSeq([i \in 1..Len(known) |-> IF i \in firsts THEN known[i] ELSE ""],
                         LAMBDA f : f # "")
  IN  [title |-> paper.title,
       authors |-> paper.authors,
       venue |-> paper.venue,
       year |-> paper.year,
       method_category |-> paper.method_category,
       extracted_info |-> [i \in 1..Len(order) |-> <<order[i], extract_field(paper, order[i])>>]]

read(genome, papers) ==
  LET extract_fields == genome.reading_template.extract_fields
  IN  [i \in 1..Len(papers) |-> _extract_fields(papers[i], extract_fields)]

\* ------------------------------------------------------------------------
\* CriticAgent (agents/critic.py); scores are in 1/3000, so that fps / 60 of
\* the catalog's metrics (thousandths) is exact: fps / 60 = (fps_thousandths / 20) / 3000
\* ------------------------------------------------------------------------
\* the strings json.dumps(extracted_info) writes
info_texts(extracted_info) ==
  LET texts_of(pair) ==
        LET field == pair[1]
            value == pair[2]
        IN  <<Chars(field)>> \o
            (CASE field \in {"method_name", "deployment_notes"} -> <<value>>
               [] field \in {"failure_modes", "limitations"} -> value
               [] field = "scalability" -> <<Chars(value)>>
               [] field = "safety_guarantees" ->
                    <<Chars("collision_rate"), Chars("safety_violations"), Chars("safety_score")>>
               [] field = "robustness_metrics" ->
                    <<Chars("detection_accuracy_rain"), Chars("detection_accuracy_fog"),
                      Chars("worst_case_performance")>>
               [] field = "performance_metrics" ->
                    <<Chars("accuracy"), Chars("fps"), Chars("latency_ms"), Chars("planning_time_ms")>>
               [] field = "computational_cost" -> <<Chars("fps"), Chars("latency_ms")>>
               [] field = "benchmark_results" -> [i \in 1..Len(value) |-> Chars(value[i][1])])
      RECURSIVE T(_)
      T(k) == IF k > Len(extracted_info) THEN <<>> ELSE texts_of(extracted_info[k]) \o T(k + 1)
  IN  T(1)

_build_critique_prompt(lab_name, paper, dimensions, event_data) ==
  << Chars("\nYou are a research critic for "), Chars(lab_name),
     Chars(".\n\nPaper: "), Chars(paper.title),
     Chars("\nMethod Category: "), Chars(paper.method_category),
     Chars("\n\nEvent Context:\n- Type: "), Chars(event_data.event_type),
     Chars("\n- Severity: "), Chars(event_data.severity),
     Chars("\n\nExtracted Information:\n") >>
  \o info_texts(paper.extracted_info) \o
  << Chars("\n\nEvaluate this paper on the following dimensions: "),
     JoinComma([i \in 1..Len(dimensions) |-> Chars(dimensions[i])]),
     Chars("\n\nReturn JSON format:\n{\n    \"scores\": {\"dimension1\": 0.0-1.0, \"dimension2\": 0.0-1.0, ...},\n    \"strengths\": [\"strength1\", \"strength2\", ...],\n    \"weaknesses\": [\"weakness1\", \"weakness2\", ...]\n}\n") >>

\* extracted_info.get(field, {}).get("fps", 30): None is kept when the field
\* is there and its fps entry is None
fps_of(extracted_info, field) ==
  IF \E i \in 1..Len(extracted_info) : extracted_info[i][1] = field
  THEN DictGet(extracted_info, field, <<>>).fps
  ELSE Some(30000)

\* the score _default_critique gives paper on dim; raised: fps / 60.0 on None
\* is a TypeError
default_score(paper, dim) ==
  LET extracted_info == paper.extracted_info
      has(field) == \E i \in 1..Len(extracted_info) : extracted_info[i][1] = field
      fps_score(fps) == IF fps = None THEN [raised |-> TRUE]
                        ELSE [raised |-> FALSE, score |-> Min(fps[1] \div 20, 3000)]
  IN  CASE dim = "robustness" ->
             LET rain == IF has("robustness_metrics")
                         THEN DictGet(extracted_info, "robustness_metrics", <<>>).detection_accuracy_rain
                         ELSE None
             IN  [raised |-> FALSE, score |-> IF Truthy(rain) THEN 3 * rain[1] ELSE 2100]
        [] dim = "accuracy" ->
             LET accuracy == IF has("performance_metrics")
                             THEN DictGet(extracted_info, "performance_metrics", <<>>).accuracy
                             ELSE None
             IN  [raised |-> FALSE, score |-> IF Truthy(accuracy) THEN 3 * accuracy[1] ELSE 2250]
        [] dim = "speed" -> fps_score(fps_of(extracted_info, "performance_metrics"))
        [] dim = "computational_efficiency" -> fps_score(fps_of(extracted_info, "computational_cost"))
        [] OTHER -> [raised |-> FALSE, score |-> 2250]

\* _default_critique: the scores dict is filled dimension by dimension
_default_critique(paper, dimensions) ==
  LET RECURSIVE S(_, _)
      S(k, scores) ==
        IF k > Len(dimensions) THEN [raised |-> FALSE, scores |-> scores]
        ELSE LET d == default_score(paper, dimensions[k])
             IN  IF d.raised THEN [raised |-> TRUE]
                 ELSE S(k + 1, DictPut(scores, dimensions[k], d.score))
      r == S(1, <<>>)
  IN  IF r.raised THEN [raised |-> TRUE]
      ELSE [raised |-> FALSE,
            value |-> << <<"scores", r.scores>>,
                         <<"strengths", <<"Well-documented methodology",
                                          "Clear experimental results">> >>,
                         <<"weaknesses", <<"Limited real-world validation">> >> >>]

\* the overall score divided without looking at the weight sum: a quotient
\* with den = 0 stands for the ZeroDivisionError
overall_score_of_unguarded(scores, dimensions, weights) ==
  LET RECURSIVE WeightedSum(_)
      WeightedSum(k) ==
        IF k > Len(dimensions) THEN 0
        ELSE DictGet(scores, dimensions[k], 1500) * DictGet(weights, dimensions[k], 100)
               + WeightedSum(k + 1)
      RECURSIVE WeightSum(_)
      WeightSum(k) ==
        IF k > Len(dimensions) THEN 0
        ELSE DictGet(weights, dimensions[k], 100) + WeightSum(k + 1)
  IN  [num |-> WeightedSum(1), den |-> WeightSum(1)]

\* the overall score as the quotient num / den, in 1/3000;
\* a dimension without score counts 0.5, without weight 1.0
overall_score_of(scores, dimensions, weights) ==
  LET RECURSIVE WeightedSum(_)
      WeightedSum(k) ==
        IF k > Len(dimensions) THEN 0
        ELSE DictGet(scores, dimensions[k], 1500) * DictGet(weights, dimensions[k], 100)
               + WeightedSum(k + 1)
      RECURSIVE WeightSum(_)
      WeightSum(k) ==
        IF k > Len(dimensions) THEN 0
        ELSE DictGet(weights, dimensions[k], 100) + WeightSum(k + 1)
      overall_score == WeightedSum(1)
      weight_sum == WeightSum(1)
  IN  IF weight_sum > 0 THEN [num |-> overall_score, den |-> weight_sum]
      ELSE [num |-> 1500, den |-> 1]

_critique_paper(lab_name, paper, dimensions, weights, event_data, behaviour) ==
  LET parsed(c) ==
        IF c.raised THEN [raised |-> TRUE]
        ELSE [raised |-> FALSE,
              value |-> DictPut(c.value, "overall_score",
                          overall_score_of(DictGet(c.value, "scores", <<>>),
                                           dimensions, weights))]
      generated(g) ==
        IF g.raised THEN [raised |-> TRUE]
        ELSE IF g.response.form = "array" THEN [raised |-> TRUE]
        ELSE IF JSONDecodeError(g.response)
             THEN parsed(_default_critique(paper, dimensions))
             ELSE parsed([raised |-> FALSE, value |-> g.response.value])
  IN  generated(generate(behaviour,
                         _build_critique_prompt(lab_name, paper, dimensions, event_data)))

\* the critiqued papers left in the order they were critiqued in
critiqued_order(critiqued_papers) == critiqued_papers

\* critiqued_papers.sort(key=lambda x: x["critique"]["overall_score"], reverse=True)
sort_by_overall_score(critiqued_papers) ==
  StableSortDesc(critiqued_papers,
                 [i \in 1..Len(critiqued_papers) |->
                    DictGet(critiqued_papers[i].critique, "overall_score", 0)])

\* critique: one _critique_paper per paper, in order, stopping at the first
\* that raises; calls counts the generate calls made
critique(lab_name, genome, papers, event_data, behaviour) ==
  LET critique_focus == RecGet(genome, "critique_focus", <<>>)
      dimensions == RecGet(critique_focus, "dimensions", <<>>)
      weights == RecGet(critique_focus, "weights", <<>>)
      RECURSIVE C(_, _)
      C(k, critiqued_papers) ==
        IF k > Len(papers) THEN [raised |-> FALSE, calls |-> Len(papers), value |-> critiqued_papers]
        ELSE LET critiqued(critique_result) ==
                   IF critique_result.raised THEN [raised |-> TRUE, calls |-> k]
                   ELSE C(k + 1, Append(critiqued_papers,
                                        [critique |-> critique_result.value] @@ papers[k]))
             IN  critiqued(_critique_paper(lab_name, papers[k], dimensions, weights,
                                           event_data, behaviour))
      sorted(r) ==
        IF r.raised THEN r
        ELSE [raised |-> FALSE, calls |-> r.calls, value |-> sort_by_overall_score(r.value)]
  IN  sorted(C(1, <<>>))

\* ------------------------------------------------------------------------
\* SynthesizerAgent (agents/synthesizer.py)
\* ------------------------------------------------------------------------
\* papers[:n]
FirstN(papers, n) == SubSeq(papers, 1, Min(n, Len(papers)))

_build_synthesis_prompt(lab_name, research_plan, papers, event_data, synthesis_style) ==
  LET top == FirstN(papers, 5)
      summary_texts(paper) ==
        <<Chars(paper.title)>>
        \o [i \in 1..Len(DictGet(paper.critique, "strengths", <<>>)) |->
              Chars(DictGet(paper.critique, "strengths", <<>>)[i])]
        \o [i \in 1..Len(DictGet(paper.critique, "weaknesses", <<>>)) |->
              Chars(DictGet(paper.critique, "weaknesses", <<>>)[i])]
      RECURSIVE T(_)
      T(k) == IF k > Len(top) THEN <<>> ELSE summary_texts(top[k]) \o T(k + 1)
  IN  << Chars("\nYou are a research synthesizer for "), Chars(lab_name),
         Chars(".\n\nEvent Context:\n- Type: "), Chars(event_data.event_type),
         Chars("\n- Severity: "), Chars(event_data.severity),
         Chars("\n\nResearch Questions:\n") >>
      \o research_plan.sub_questions \o
      << Chars("\n\nTop Papers Analyzed:\n") >>
      \o T(1) \o
      << Chars("\n\nAudience: "), Chars(synthesis_style.audience),
         Chars("\nEmphasis: "), Chars(synthesis_style.emphasis),
         Chars("\n\nSynthesize the research findings into actionable recommendations.\n\nReturn JSON format:\n{\n    \"summary\": \"brief overview\",\n    \"key_methods\": [\"method1\", \"method2\", ...],\n    \"deployment_recommendations\": [\"rec1\", \"rec2\", ...],\n    \"trade_offs\": {\"aspect\": \"description\"},\n    \"confidence_level\": \"high/medium/low\"\n}\n") >>

_default_synthesis(lab_name, papers, event_data) ==
  LET top_papers == FirstN(papers, 3)
      method_name(paper) == DictGet(paper.extracted_info, "method_name", Chars(paper.title))
      notes(paper) == DictGet(paper.extracted_info, "deployment_notes", <<>>)
      with_notes == SelectSeq(top_papers, LAMBDA paper : notes(paper) # <<>>)
      key_methods == [i \in 1..Len(top_papers) |-> method_name(top_papers[i])]
      deployment_recs == [i \in 1..Len(with_notes) |-> notes(with_notes[i])]
  IN  << <<"summary",
           IF lab_name = "SafetyLab"
           THEN Chars("For ") \o Chars(event_data.event_type)
                  \o Chars(", prioritize methods with strong safety guarantees and robustness.")
           ELSE Chars("For ") \o Chars(event_data.event_type)
                  \o Chars(", prioritize high-performance methods with real-time capability.")>>,
         <<"key_methods", key_methods>>,
         <<"deployment_recommendations",
           IF deployment_recs # <<>> THEN deployment_recs
           ELSE <<Chars("Conduct thorough testing before deployment")>> >>,
         <<"trade_offs",
           IF lab_name = "SafetyLab"
           THEN << <<"safety_vs_performance", "Higher safety guarantees may reduce performance">>,
                   <<"complexity_vs_reliability",
                     "More complex verification increases reliability but adds overhead">> >>
           ELSE << <<"performance_vs_safety",
                     "Higher performance may sacrifice some safety guarantees">>,
                   <<"accuracy_vs_speed", "Faster inference may reduce accuracy slightly">> >> >>,
         <<"confidence_level", "medium">> >>

\* synthesize: raised when generate raises or the parsed JSON is no dict
\* (item assignment is a TypeError)
synthesize(lab_name, genome, research_plan, papers, event_data, behaviour) ==
  LET synthesis_style == genome.synthesis_style
      generated(g) ==
      IF g.raised THEN [raised |-> TRUE, calls |-> 1]
      ELSE IF g.response.form = "array" THEN [raised |-> TRUE, calls |-> 1]
      ELSE LET from_llm == ~JSONDecodeError(g.response)
               s0 == IF from_llm THEN g.response.value
                     ELSE _default_synthesis(lab_name, papers, event_data)
               s1 == DictPut(s0, "lab_name", lab_name)
               s2 == DictPut(s1, "event_type", event_data.event_type)
               s3 == DictPut(s2, "num_papers_analyzed", Len(papers))
               top3 == FirstN(papers, 3)
               s4 == DictPut(s3, "top_papers",
                       [i \in 1..Len(top3) |->
                          [title |-> top3[i].title,
                           score |-> DictGet(top3[i].critique, "overall_score", 0),
                           method_category |-> top3[i].method_category]])
           IN  [raised |-> FALSE, calls |-> 1, value |-> s4]
  IN  generated(generate(behaviour,
                         _build_synthesis_prompt(lab_name, research_plan, papers, event_data,
                                                 synthesis_style)))

\* ------------------------------------------------------------------------
\* ResearchLabOrchestrator.run_analysis (services/research_lab.py)
\* ------------------------------------------------------------------------
\* ResearchLab.analyze_event
ResearchLab_analyze_event(lab_name, genome, event_data, provider) ==
  LET synthesized(research_plan, papers, critiqued_papers, synthesis) ==
        IF synthesis.raised THEN [raised |-> TRUE]
        ELSE [raised |-> FALSE,
              lab_name |-> lab_name,
              research_plan |-> research_plan,
              papers_analyzed |-> Len(papers),
              top_papers |-> FirstN(critiqued_papers, 5),
              synthesis |-> synthesis.value]
      critiqued(research_plan, papers, critiqued_papers) ==
        IF critiqued_papers.raised THEN [raised |-> TRUE]
        ELSE synthesized(research_plan, papers, critiqued_papers.value,
                         synthesize(lab_name, genome, research_plan, critiqued_papers.value,
                                    event_data, provider.synthesizer))
      retrieved(research_plan, papers) ==
        critiqued(research_plan, papers,
                  critique(lab_name, genome, read(genome, papers), event_data, provider.critic))
      planned(research_plan) ==
        IF research_plan.raised THEN [raised |-> TRUE]
        ELSE retrieved(research_plan.value, retrieve(lab_name, genome, research_plan.value))
  IN  planned(plan(lab_name, genome, event_data, provider.planner))

\* run_analysis on the caller's two genome dicts; raised tells that an
\* exception left the call, inputs_after are the caller's dicts after it
run_analysis(event_data, safety_genome, performance_genome, provider) ==
  LET heap0 == ("safety_genome" :> safety_genome) @@ ("performance_genome" :> performance_genome)
      result(safety_output, performance_output, judge_decision, learned) ==
        [raised |-> FALSE,
         safety_lab_output |-> safety_output,
         performance_lab_output |-> performance_output,
         judge_decision |-> judge_decision,
         genome_updates |->
           [safety_lab |-> [updated |-> learned.safety_changes # NoChanges,
                            changes |-> learned.safety_changes,
                            new_genome |-> learned.new_safety_genome,
                            new_genome_ref |-> learned.new_safety_ref],
            performance_lab |-> [updated |-> learned.performance_changes # NoChanges,
                                 changes |-> learned.performance_changes,
                                 new_genome |-> learned.new_performance_genome,
                                 new_genome_ref |-> learned.new_performance_ref]],
         inputs_after |-> [safety_genome |-> learned.heap["safety_genome"],
                           performance_genome |-> learned.heap["performance_genome"]]]
      judged(safety_output, performance_output, judge_decision) ==
        result(safety_output, performance_output, judge_decision, learn(judge_decision, heap0))
      after_performance(safety_output, performance_output) ==
        IF performance_output.raised THEN [raised |-> TRUE]
        ELSE judged(safety_output, performance_output,
                    judge(safety_output.synthesis, performance_output.synthesis, event_data))
      after_safety(safety_output) ==
        IF safety_output.raised THEN [raised |-> TRUE]
        ELSE after_performance(safety_output,
                               ResearchLab_analyze_event("PerformanceLab", performance_genome,
                                                         event_data, provider))
  IN  after_safety(ResearchLab_analyze_event("SafetyLab", safety_genome, event_data, provider))

\* ------------------------------------------------------------------------
\* The service: strategy_genomes table and the analyze_event route
\* (models/genome.py, db/init_db.py, api/routes.py)
\* ------------------------------------------------------------------------
VARIABLES
  genomes,     \* strategy_genomes rows, in insertion order
  derived,     \* history: for each row, the row its run loaded and the run's changes
  analyses,    \* analyses rows
  req,         \* per request thread: position in analyze_event and its locals
  clock,       \* datetime.utcnow, one tick per commit
  started,     \* analyze_event requests accepted so far
  provider,    \* the text-generation collaborator installed as llm_client
  orch_pc,     \* one run_analysis call followed statement by statement: its position
  orch,        \* ... its locals
  llm_calls,   \* ... the llm_client.generate calls made so far, per lab and agent
  trace,       \* ... the stages executed so far, in order
  unit,        \* one agent object constructed on its own: its class and fields
  calls        \* ... the calls made on it so far: arguments and result of each

vars == <<genomes, derived, analyses, req, clock, started, provider,
          orch_pc, orch, llm_calls, trace, unit, calls>>

dbvars == <<genomes, derived, analyses, req, clock, started>>

labvars == <<orch_pc, orch, llm_calls, trace>>

unitvars == <<unit, calls>>

Workers == {"t1", "t2"}

Labs == {"SafetyLab", "PerformanceLab"}

\* Events of the events table that requests analyse
Events ==
  {[event_type |-> "cut_in", severity |-> "high", weather |-> "rain"],
   [event_type |-> "lane_change", severity |-> "medium", weather |-> "clear"],
   [event_type |-> "close_following", severity |-> "low", weather |-> "fog"]}

\* llm_client as installed: what it does when the planner, the critic and the
\* synthesizer call generate
Provider(planner, critic, synthesizer) ==
  [planner |-> planner, critic |-> critic, synthesizer |-> synthesizer]

\* llm_client = LLMClient(provider="mock")
Providers == {Provider("mock", "mock", "mock")}

Idle == [pc |-> "idle"]

\* Positions of a run_analysis call
At(lab, stage) == [lab |-> lab, stage |-> stage]

NotCalled == At("", "not called")

Agents == {"planner", "critic", "synthesizer"}

NoCalls == [lab \in Labs |-> [agent \in Agents |-> 0]]

\* no agent object is constructed on its own
NoUnit == [class |-> ""]

\* StrategyGenome(**fields) as stored by db.add + db.commit
StrategyGenome(id, fields, created_at) ==
  [id |-> id,
   lab_name |-> fields.lab_name,
   version |-> fields.version,
   genome_data |-> fields.genome_data,
   parent_version |-> fields.parent_version,
   change_description |-> fields.change_description,
   is_active |-> fields.is_active,
   created_at |-> created_at]

\* create_initial_genomes
create_initial_genomes ==
  << StrategyGenome(1, [lab_name |-> "SafetyLab", version |-> <<"v", "0", ".", "1">>,
                        genome_data |-> safety_genome_v01, parent_version |-> None,
                        change_description |-> <<[text |-> "Initial genome for SafetyLab"]>>,
                        is_active |-> 1], 0),
     StrategyGenome(2, [lab_name |-> "PerformanceLab", version |-> <<"v", "0", ".", "1">>,
                        genome_data |-> performance_genome_v01, parent_version |-> None,
                        change_description |-> <<[text |-> "Initial genome for PerformanceLab"]>>,
                        is_active |-> 1], 0) >>

\* query(StrategyGenome).filter(lab_name == lab, is_active == 1)
\*   .order_by(created_at.desc()).first(): the rows it may return
active_genome_records(table, lab) ==
  {i \in 1..Len(table) :
     /\ table[i].lab_name = lab
     /\ table[i].is_active = 1
     /\ \A j \in 1..Len(table) :
          (table[j].lab_name = lab /\ table[j].is_active = 1)
             => table[j].created_at <= table[i].created_at}

Init ==
  /\ genomes = create_initial_genomes
  /\ derived = <<[parent_id |-> 0, run |-> 0], [parent_id |-> 0, run |-> 0]>>
  /\ analyses = <<>>
  /\ req = [w \in Workers |-> Idle]
  /\ clock = 1
  /\ started = 0
  /\ provider \in Providers
  /\ orch_pc = NotCalled
  /\ orch = <<>>
  /\ llm_calls = NoCalls
  /\ trace = <<>>
  /\ unit = NoUnit
  /\ calls = <<>>

\* analyze_event, lines 164-219: load the event and the two active genomes
LoadGenomes(w) ==
  /\ req[w].pc = "idle"
  /\ started < MaxRuns
  /\ \E event_data \in Events :
     \E s \in active_genome_records(genomes, "SafetyLab") :
     \E p \in active_genome_records(genomes, "PerformanceLab") :
        req' = [req EXCEPT ![w] =
                  [pc |-> "loaded", run |-> started + 1, event_data |-> event_data,
                   safety_genome_record |-> genomes[s],
                   performance_genome_record |-> genomes[p]]]
  /\ started' = started + 1
  /\ UNCHANGED <<unitvars, genomes, derived, analyses, clock, provider, labvars>>

\* analyze_event, lines 221-226: lab_orchestrator.run_analysis on the loaded
\* records' genome_data; an exception ends the request
RunAnalysis(w) ==
  /\ req[w].pc = "loaded"
  /\ LET r == req[w]
         after(result) ==
           IF result.raised
           THEN [pc |-> "failed", run |-> r.run]
           ELSE [r EXCEPT
                   !.pc = "analyzed",
                   !.safety_genome_record.genome_data = result.inputs_after.safety_genome,
                   !.performance_genome_record.genome_data =
                      result.inputs_after.performance_genome]
                @@ [analysis_result |-> result]
     IN  req' = [req EXCEPT ![w] =
                   after(run_analysis(r.event_data, r.safety_genome_record.genome_data,
                                      r.performance_genome_record.genome_data, provider))]
  /\ UNCHANGED <<unitvars, genomes, derived, analyses, clock, started, provider, labvars>>

\* analyze_event, lines 228-271: add a row per updated genome and the
\* analysis row, then commit
Commit(w) ==
  /\ req[w].pc = "analyzed"
  /\ LET r == req[w]
         upd == r.analysis_result.genome_updates
         sv == create_new_genome_version(upd.safety_lab.new_genome, "SafetyLab",
                                         Some(r.safety_genome_record.version),
                                         upd.safety_lab.changes)
         pv == create_new_genome_version(upd.performance_lab.new_genome, "PerformanceLab",
                                         Some(r.performance_genome_record.version),
                                         upd.performance_lab.changes)
         g1 == IF upd.safety_lab.updated
               THEN Append(genomes, StrategyGenome(Len(genomes) + 1, sv.genome_dict, clock))
               ELSE genomes
         d1 == IF upd.safety_lab.updated
               THEN Append(derived, [parent_id |-> r.safety_genome_record.id, run |-> r.run])
               ELSE derived
         g2 == IF upd.performance_lab.updated
               THEN Append(g1, StrategyGenome(Len(g1) + 1, pv.genome_dict, clock))
               ELSE g1
         d2 == IF upd.performance_lab.updated
               THEN Append(d1, [parent_id |-> r.performance_genome_record.id, run |-> r.run])
               ELSE d1
         analysis ==
           [run |-> r.run,
            event_data |-> r.event_data,
            judge_decision |-> r.analysis_result.judge_decision,
            genome_updates |-> upd,
            safety_genome_id |-> r.safety_genome_record.id,
            performance_genome_id |-> r.performance_genome_record.id,
            safety_genome_version |-> r.safety_genome_record.version,
            performance_genome_version |-> r.performance_genome_record.version,
            new_safety_genome_version |->
               IF upd.safety_lab.updated THEN Some(sv.new_version) ELSE None,
            new_performance_genome_version |->
               IF upd.performance_lab.updated THEN Some(pv.new_version) ELSE None]
     IN  /\ genomes' = g2
         /\ derived' = d2
         /\ analyses' = Append(analyses, analysis)
         /\ req' = [req EXCEPT ![w] = [pc |-> "done", run |-> r.run]]
  /\ clock' = clock + 1
  /\ UNCHANGED <<unitvars, started, provider, labvars>>

\* the response (the analysis, or HTTP 500) is sent; the thread takes another request
Respond(w) ==
  /\ req[w].pc \in {"done", "failed"}
  /\ req' = [req EXCEPT ![w] = Idle]
  /\ UNCHANGED <<unitvars, genomes, derived, analyses, clock, started, provider, labvars>>

Next == \E w \in Workers : LoadGenomes(w) \/ RunAnalysis(w) \/ Commit(w) \/ Respond(w)

Spec == Init /\ [][Next]_vars

\* ------------------------------------------------------------------------
\* Properties of the service (Spec)
\* ------------------------------------------------------------------------
\* the rows an analysis run created, and for each the row its run loaded
Created == {i \in 1..Len(genomes) : derived[i].parent_id # 0}

Parent(i) == genomes[derived[i].parent_id]

\* the number after "v" of a version string, in tenths
VersionTenths(version) == float(RemoveChar(version, "v")).tenths

\* the requests that have run_analysis behind them and have not yet committed
Analyzed == {w \in Workers : req[w].pc = "analyzed"}

\* C1: for every event severity the judge's winner is "Tie" if and only if the
\* two scores differ by less than 0.05; otherwise the winner is the lab with
\* the strictly higher score; both scores are at most 1.0.
C1_JudgeWinnerRule ==
  \A w \in Analyzed :
    LET d == req[w].analysis_result.judge_decision
        s == d.safety_lab_score
        p == d.performance_lab_score
    IN  /\ s <= 100 /\ p <= 100
        /\ (d.winner = "Tie") <=> (Abs(s - p) < 5)
        /\ d.winner = "SafetyLab" => s > p
        /\ d.winner = "PerformanceLab" => p > s
        /\ d.winner \in {"Tie", "SafetyLab", "PerformanceLab"}

\* a judged run whose scores are exactly 0.05 apart, and so is not a tie
C1_Witness ==
  \E w \in Analyzed :
    LET d == req[w].analysis_result.judge_decision
    IN  /\ Abs(d.safety_lab_score - d.performance_lab_score) = 5
        /\ d.winner = "PerformanceLab"
        /\ req[w].event_data.severity = "low"

\* C2: a run adds at most one row per lab, and adds a row for a lab only if
\* the lab's new genome data differs from the data the run started with.
C2_RowOnlyIfDataDiffers ==
  /\ \A i \in Created : genomes[i].genome_data # Parent(i).genome_data
  /\ \A i, j \in Created :
       (derived[i].run = derived[j].run /\ genomes[i].lab_name = genomes[j].lab_name) => i = j

\* C3: run_analysis leaves both genome dicts it was given equal to their
\* pre-call values (the loaded rows' data), the new genome data it returns
\* are objects of their own, and no step of analyze_event changes or removes
\* a row that exists.
C3_RunNeverMutatesInputs ==
  /\ [](\A w \in Analyzed :
          LET r == req[w]
              upd == r.analysis_result.genome_updates
          IN  /\ r.safety_genome_record.genome_data
                   = genomes[r.safety_genome_record.id].genome_data
              /\ r.performance_genome_record.genome_data
                   = genomes[r.performance_genome_record.id].genome_data
              /\ upd.safety_lab.new_genome_ref \notin {"safety_genome", "performance_genome"}
              /\ upd.performance_lab.new_genome_ref \notin {"safety_genome", "performance_genome"}
              /\ upd.safety_lab.new_genome_ref # upd.performance_lab.new_genome_ref)
  /\ [][/\ Len(genomes') >= Len(genomes)
        /\ SubSeq(genomes', 1, Len(genomes)) = genomes]_vars

\* a run has returned a new genome that differs from the input it was copied
\* from, and a later commit has put a row behind the loaded one
C3_Witness ==
  \E w \in Analyzed :
    LET r == req[w]
    IN  /\ r.analysis_result.genome_updates.safety_lab.new_genome
             # r.safety_genome_record.genome_data
        /\ Len(genomes) > 2

\* C4: each lab has exactly one row with is_active = 1.
C4_OneActiveRowPerLab ==
  \A lab \in Labs :
    Cardinality({i \in 1..Len(genomes) :
                   genomes[i].lab_name = lab /\ genomes[i].is_active = 1}) = 1

\* C5: every row a run created has a version exactly 0.1 above, and so
\* strictly above, the version of the row the run loaded.
C5_VersionPlusTenth ==
  \A i \in Created :
    /\ genomes[i].lab_name = Parent(i).lab_name
    /\ VersionTenths(genomes[i].version) = VersionTenths(Parent(i).version) + 1
    /\ VersionTenths(genomes[i].version) > VersionTenths(Parent(i).version)

\* a lineage of three rows: v0.3 made from v0.2 made from the seeded v0.1
C5_Witness ==
  \E i \in Created :
    /\ derived[i].parent_id \in Created
    /\ genomes[i].version = <<"v", "0", ".", "3">>
    /\ Parent(i).version = <<"v", "0", ".", "2">>

\* C6: every row a run created carries as parent_version the version of the
\* row the run loaded as the lab's active genome and as change description
\* the changes of that run; exactly the seeded rows have no parent_version;
\* rows already there stay as they are.
C6_ParentLink ==
  /\ [](/\ \A i \in Created :
             /\ genomes[i].parent_version = Some(Parent(i).version)
             /\ derived[i].parent_id < i
             /\ \E a \in 1..Len(analyses) :
                  /\ analyses[a].run = derived[i].run
                  /\ genomes[i].change_description =
                       (IF genomes[i].lab_name = "SafetyLab"
                        THEN analyses[a].genome_updates.safety_lab.changes
                        ELSE analyses[a].genome_updates.performance_lab.changes)
                  /\ derived[i].parent_id =
                       (IF genomes[i].lab_name = "SafetyLab"
                        THEN analyses[a].safety_genome_id
                        ELSE analyses[a].performance_genome_id)
        /\ \A i \in 1..Len(genomes) : (genomes[i].parent_version = None) <=> (i \notin Created))
  /\ [][\A i \in 1..Len(genomes) : i <= Len(genomes') /\ genomes'[i] = genomes[i]]_vars

\* a row made from a row that a run had made, next to its untouched parent
C6_Witness ==
  \E i \in Created :
    /\ derived[i].parent_id \in Created
    /\ genomes[i].parent_version = Some(<<"v", "0", ".", "2">>)
    /\ genomes[i].change_description # NoChanges

\* C7: no two rows of the same lab carry the same version.
C7_UniqueLabVersion ==
  \A i, j \in 1..Len(genomes) :
    (genomes[i].lab_name = genomes[j].lab_name /\ genomes[i].version = genomes[j].version)
       => i = j

\* ------------------------------------------------------------------------
\* One run_analysis call, statement by statement (services/research_lab.py)
\* ------------------------------------------------------------------------
\* every way the three call sites can find the collaborator behaving
LabProviders ==
  {Provider(planner, critic, synthesizer) :
     planner \in Behaviours, critic \in Behaviours, synthesizer \in Behaviours}

LabInit ==
  /\ genomes = create_initial_genomes
  /\ derived = <<[parent_id |-> 0, run |-> 0], [parent_id |-> 0, run |-> 0]>>
  /\ analyses = <<>>
  /\ req = [w \in Workers |-> Idle]
  /\ clock = 1
  /\ started = 0
  /\ provider \in LabProviders
  /\ orch_pc = NotCalled
  /\ orch = <<>>
  /\ llm_calls = NoCalls
  /\ trace = <<>>
  /\ unit = NoUnit
  /\ calls = <<>>

\* the lab after lab in run_analysis, "" after the last
NextLab(lab) == IF lab = "SafetyLab" THEN "PerformanceLab" ELSE ""

\* the genome ResearchLab(lab_name, genome) was constructed with
GenomeOf(lab) == IF lab = "SafetyLab" THEN orch.safety_genome ELSE orch.performance_genome

\* a stage of lab has run: it returned value, or an exception left it and
\* with it analyze_event and run_analysis
StageDone(lab, stage, next_stage, raised, local, value) ==
  /\ trace' = Append(trace, [lab |-> lab, stage |-> stage, raised |-> raised])
  /\ IF raised
     THEN /\ orch_pc' = At(lab, "raised")
          /\ orch' = orch
     ELSE /\ orch_pc' = At(lab, next_stage)
          /\ orch' = [orch EXCEPT !.locals[lab] = local :> value @@ @]

\* run_analysis, lines 99-104: the two ResearchLab objects are constructed on
\* the caller's genomes
Call ==
  /\ orch_pc = NotCalled
  /\ \E event_data \in Events :
     \E s \in active_genome_records(genomes, "SafetyLab") :
     \E p \in active_genome_records(genomes, "PerformanceLab") :
        orch' = [event_data |-> event_data,
                 safety_genome |-> genomes[s].genome_data,
                 performance_genome |-> genomes[p].genome_data,
                 locals |-> [lab \in Labs |-> <<>>]]
  /\ orch_pc' = At("SafetyLab", "planner")
  /\ UNCHANGED <<unitvars, dbvars, provider, llm_calls, trace>>

\* analyze_event, line 45: self.planner.plan(event_data)
Plan(lab) ==
  /\ orch_pc = At(lab, "planner")
  /\ LET planned(research_plan) ==
           /\ llm_calls' = [llm_calls EXCEPT ![lab]["planner"] = @ + research_plan.calls]
           /\ StageDone(lab, "planner", "retriever", research_plan.raised, "research_plan",
                        IF research_plan.raised THEN <<>> ELSE research_plan)
     IN  planned(plan(lab, GenomeOf(lab), orch.event_data, provider.planner))
  /\ UNCHANGED <<unitvars, dbvars, provider>>

\* analyze_event, line 48: self.retriever.retrieve(research_plan)
Retrieve(lab) ==
  /\ orch_pc = At(lab, "retriever")
  /\ StageDone(lab, "retriever", "reader", FALSE, "papers",
               retrieve(lab, GenomeOf(lab), orch.locals[lab]["research_plan"].value))
  /\ UNCHANGED <<unitvars, dbvars, provider, llm_calls>>

\* analyze_event, line 51: self.reader.read(papers)
Read(lab) ==
  /\ orch_pc = At(lab, "reader")
  /\ StageDone(lab, "reader", "critic", FALSE, "extracted_papers",
               read(GenomeOf(lab), orch.locals[lab]["papers"]))
  /\ UNCHANGED <<unitvars, dbvars, provider, llm_calls>>

\* analyze_event, line 54: self.critic.critique(extracted_papers, event_data)
Critique(lab) ==
  /\ orch_pc = At(lab, "critic")
  /\ LET critiqued(critiqued_papers) ==
           /\ llm_calls' = [llm_calls EXCEPT ![lab]["critic"] = @ + critiqued_papers.calls]
           /\ StageDone(lab, "critic", "synthesizer", critiqued_papers.raised,
                        "critiqued_papers",
                        IF critiqued_papers.raised THEN <<>> ELSE critiqued_papers.value)
     IN  critiqued(critique(lab, GenomeOf(lab), orch.locals[lab]["extracted_papers"],
                            orch.event_data, provider.critic))
  /\ UNCHANGED <<unitvars, dbvars, provider>>

\* analyze_event, lines 57-68: self.synthesizer.synthesize(...), and the lab's
\* output is returned to run_analysis
Synthesize(lab) ==
  /\ orch_pc = At(lab, "synthesizer")
  /\ LET synthesized(synthesis) ==
           /\ llm_calls' = [llm_calls EXCEPT ![lab]["synthesizer"] = @ + synthesis.calls]
           /\ trace' = Append(trace, [lab |-> lab, stage |-> "synthesizer",
                                      raised |-> synthesis.raised])
           /\ IF synthesis.raised
              THEN /\ orch_pc' = At(lab, "raised")
                   /\ orch' = orch
              ELSE /\ orch_pc' = IF NextLab(lab) = "" THEN At("", "judge")
                                 ELSE At(NextLab(lab), "planner")
                   /\ orch' = [orch EXCEPT !.locals[lab] = "synthesis" :> synthesis @@ @]
     IN  synthesized(synthesize(lab, GenomeOf(lab), orch.locals[lab]["research_plan"].value,
                                orch.locals[lab]["critiqued_papers"], orch.event_data,
                                provider.synthesizer))
  /\ UNCHANGED <<unitvars, dbvars, provider>>

\* run_analysis, lines 107-111: self.judge.judge on the two syntheses
Judge ==
  /\ orch_pc = At("", "judge")
  /\ orch' = [judge_decision |->
                judge(orch.locals["SafetyLab"]["synthesis"].value,
                      orch.locals["PerformanceLab"]["synthesis"].value, orch.event_data)]
             @@ orch
  /\ orch_pc' = At("", "meta_learner")
  /\ trace' = Append(trace, [lab |-> "", stage |-> "judge", raised |-> FALSE])
  /\ UNCHANGED <<unitvars, dbvars, provider, llm_calls>>

\* run_analysis, lines 114-146: self.meta_learner.learn, and the result is
\* returned
Learn ==
  /\ orch_pc = At("", "meta_learner")
  /\ LET heap0 == ("safety_genome" :> orch.safety_genome)
                    @@ ("performance_genome" :> orch.performance_genome)
         learned(l) ==
           orch' = [genome_updates |->
                      [safety_lab |-> [updated |-> l.safety_changes # NoChanges,
                                       changes |-> l.safety_changes,
                                       new_genome |-> l.new_safety_genome],
                       performance_lab |-> [updated |-> l.performance_changes # NoChanges,
                                            changes |-> l.performance_changes,
                                            new_genome |-> l.new_performance_genome]]]
                   @@ [orch EXCEPT !.safety_genome = l.heap["safety_genome"],
                                   !.performance_genome = l.heap["performance_genome"]]
     IN  learned(learn(orch.judge_decision, heap0))
  /\ orch_pc' = At("", "returned")
  /\ trace' = Append(trace, [lab |-> "", stage |-> "meta_learner", raised |-> FALSE])
  /\ UNCHANGED <<unitvars, dbvars, provider, llm_calls>>

LabNext ==
  \/ Call
  \/ \E lab \in Labs : Plan(lab)
  \/ \E lab \in Labs : Retrieve(lab)
  \/ \E lab \in Labs : Read(lab)
  \/ \E lab \in Labs : Critique(lab)
  \/ \E lab \in Labs : Synthesize(lab)
  \/ Judge
  \/ Learn

LabSpec == LabInit /\ [][LabNext]_vars

\* ------------------------------------------------------------------------
\* Properties of one run_analysis call (LabSpec)
\* ------------------------------------------------------------------------
\* the stages of lab executed so far, in order
StagesOf(lab) ==
  LET mine == SelectSeq(trace, LAMBDA t : t.lab = lab)
  IN  [k \in 1..Len(mine) |-> mine[k].stage]

LabStages == <<"planner", "retriever", "reader", "critic", "synthesizer">>

\* the stage of lab has run and returned
Returned(lab, stage) ==
  \E k \in 1..Len(trace) : trace[k] = [lab |-> lab, stage |-> stage, raised |-> FALSE]

Ran(lab, stage) == \E k \in 1..Len(trace) : trace[k].lab = lab /\ trace[k].stage = stage

Ended == orch_pc.stage \in {"returned", "raised"}

\* C8: whatever the text-generation call does (other than answering with the
\* expected object), no exception leaves a Planner, Critic or Synthesizer
\* stage, the stage returns its deterministic fallback, and the run reaches
\* its end with every stage executed.
C8_StagesFallBack ==
  /\ \A k \in 1..Len(trace) : ~trace[k].raised
  /\ orch_pc.stage # "raised"
  /\ \A lab \in Labs :
       /\ (provider.planner # "mock" /\ Returned(lab, "planner")) =>
            LET research_plan == orch.locals[lab]["research_plan"].value
                fallback == _default_plan(lab, orch.event_data)
            IN  /\ research_plan.sub_questions = DictGet(fallback, "sub_questions", <<>>)
                /\ research_plan.search_strategy = DictGet(fallback, "search_strategy", <<>>)
       /\ (provider.critic # "mock" /\ Returned(lab, "critic")) =>
            LET critiqued_papers == orch.locals[lab]["critiqued_papers"]
                dimensions == GenomeOf(lab).critique_focus.dimensions
            IN  \A k \in 1..Len(critiqued_papers) :
                  LET paper == critiqued_papers[k]
                      fallback == _default_critique(paper, dimensions)
                  IN  /\ ~fallback.raised
                      /\ DictGet(paper.critique, "scores", <<>>)
                           = DictGet(fallback.value, "scores", <<>>)
       /\ (provider.synthesizer # "mock" /\ Returned(lab, "synthesizer")) =>
            LET synthesis == orch.locals[lab]["synthesis"].value
                fallback == _default_synthesis(lab, orch.locals[lab]["critiqued_papers"],
                                               orch.event_data)
            IN  \A key \in {"summary", "key_methods", "deployment_recommendations",
                            "trade_offs", "confidence_level"} :
                  DictGet(synthesis, key, <<>>) = DictGet(fallback, key, <<>>)
  /\ Ended => \A lab \in Labs : StagesOf(lab) = LabStages

\* C9 as stated: every agent that uses the collaborator calls it exactly once
\* per lab when its stage runs, and never more than once.
C9_OneCallPerStage ==
  \A lab \in Labs : \A agent \in Agents :
    /\ llm_calls[lab][agent] <= 1
    /\ Ran(lab, agent) => llm_calls[lab][agent] = 1

\* C9 amended: the Planner and the Synthesizer call the collaborator exactly
\* once per lab when they run and never otherwise; the Critic calls it once
\* for every paper it critiques, which are all the retrieved papers when it
\* returns and the papers up to the one whose critique raised when it does
\* not; no call is made a second time.
C9_CallsPerStage ==
  \A lab \in Labs :
    /\ llm_calls[lab]["planner"] = (IF Ran(lab, "planner") THEN 1 ELSE 0)
    /\ llm_calls[lab]["synthesizer"] = (IF Ran(lab, "synthesizer") THEN 1 ELSE 0)
    /\ ~Ran(lab, "critic") => llm_calls[lab]["critic"] = 0
    /\ Returned(lab, "critic") =>
         llm_calls[lab]["critic"] = Len(orch.locals[lab]["papers"])
    /\ (Ran(lab, "critic") /\ ~Returned(lab, "critic")) =>
         /\ llm_calls[lab]["critic"] >= 1
         /\ llm_calls[lab]["critic"] <= Len(orch.locals[lab]["papers"])

\* a run has returned in which both critics made three calls for three papers
\* while planner and synthesizer, answered with text that is not JSON, made one
C9_Witness ==
  /\ orch_pc.stage = "returned"
  /\ provider.planner = "text" /\ provider.synthesizer = "text"
  /\ \A lab \in Labs :
       /\ Len(orch.locals[lab]["papers"]) = 3
       /\ llm_calls[lab]["critic"] = 3
       /\ llm_calls[lab]["planner"] = 1
       /\ llm_calls[lab]["synthesizer"] = 1

\* C10: each lab executes Planner, Retriever, Reader, Critic, Synthesizer in
\* that order and never twice, the Judge runs only when both syntheses exist
\* and the MetaLearner only when the Judge has decided; and when the run has
\* ended each lab has executed all five stages.
C10_StagesInOrder ==
  /\ \A lab \in Labs :
       /\ Len(StagesOf(lab)) <= Len(LabStages)
       /\ StagesOf(lab) = SubSeq(LabStages, 1, Len(StagesOf(lab)))
  /\ Ran("", "judge") => \A lab \in Labs : Returned(lab, "synthesizer")
  /\ Ran("", "meta_learner") => Ran("", "judge")
  /\ Ended => \A lab \in Labs : StagesOf(lab) = LabStages

\* C19: a run on a high-severity event with both genomes as seeded is judged
\* 0.84 for SafetyLab and 0.77 for PerformanceLab, at least 0.05 apart, and
\* SafetyLab wins.
C19_HighSeverityJudgment ==
  (/\ orch_pc.stage \in {"meta_learner", "returned"}
   /\ orch_pc.lab = ""
   /\ orch.event_data.severity = "high"
   /\ genomes = create_initial_genomes) =>
     /\ orch.judge_decision.safety_lab_score = 84
     /\ orch.judge_decision.performance_lab_score = 77
     /\ orch.judge_decision.safety_lab_score - orch.judge_decision.performance_lab_score >= 5
     /\ orch.judge_decision.winner = "SafetyLab"

\* the run on the high-severity cut_in event has returned, with the
\* collaborator as installed, SafetyLab the winner
C19_Witness ==
  /\ orch_pc = At("", "returned")
  /\ provider = Provider("mock", "mock", "mock")
  /\ orch.event_data.event_type = "cut_in"
  /\ orch.event_data.severity = "high"
  /\ genomes = create_initial_genomes
  /\ orch.judge_decision.winner = "SafetyLab"
  /\ orch.judge_decision.safety_lab_score = 84
  /\ orch.judge_decision.performance_lab_score = 77

\* ------------------------------------------------------------------------
\* An agent object constructed and called on its own
\* ------------------------------------------------------------------------
\* the service and the orchestrator are not running
Standalone ==
  /\ genomes = create_initial_genomes
  /\ derived = <<[parent_id |-> 0, run |-> 0], [parent_id |-> 0, run |-> 0]>>
  /\ analyses = <<>>
  /\ req = [w \in Workers |-> Idle]
  /\ clock = 1
  /\ started = 0
  /\ provider \in Providers
  /\ orch_pc = NotCalled
  /\ orch = <<>>
  /\ llm_calls = NoCalls
  /\ trace = <<>>

\* a method of the object returns (or raises): the call is logged
Called(method, args, result) ==
  /\ Len(calls) < MaxCalls
  /\ calls' = Append(calls, [method |-> method, args |-> args, result |-> result])
  /\ UNCHANGED <<unit, dbvars, provider, labvars>>

\* the seeded genome of a lab
SeedGenome(lab_name) ==
  IF lab_name = "SafetyLab" THEN safety_genome_v01 ELSE performance_genome_v01

\* ------------------------------------------------------------------------
\* RetrieverAgent(lab_name, genome) on its own (agents/retriever.py)
\* ------------------------------------------------------------------------
\* years around those of the catalogs (2022, 2023)
WindowYears == {2021, 2022, 2023, 2024}

\* venue -> weight maps: empty, all venues distinct, one venue only, equal
\* weights and weights at and below the default 0.5, the seeded ones
VenueWeightMaps ==
  { <<>>,
    << <<"ICRA", 100>>, <<"CVPR", 90>>, <<"CoRL", 80>>, <<"NeurIPS", 70>> >>,
    << <<"CVPR", 100>> >>,
    << <<"ICRA", 50>>, <<"NeurIPS", 20>>, <<"CoRL", 50>> >>,
    << <<"CoRL", 0>>, <<"CVPR", 0>>, <<"ICRA", 75>>, <<"NeurIPS", 75>> >>,
    safety_genome_v01.retrieval_preferences.venue_weights,
    performance_genome_v01.retrieval_preferences.venue_weights }

\* retrieval_preferences dicts: any window over WindowYears (inverted ones
\* included), any of the maps, and either key absent
RetrievalPreferences ==
  {[year_window |-> <<lo, hi>>, venue_weights |-> m] :
     lo \in WindowYears, hi \in WindowYears, m \in VenueWeightMaps}
  \cup {[venue_weights |-> m] : m \in VenueWeightMaps}
  \cup {[year_window |-> <<lo, hi>>] : lo \in WindowYears, hi \in WindowYears}

\* genomes a RetrieverAgent is constructed with; the last has no
\* retrieval_preferences
RetrieverGenomes(lab_name) ==
  {[SeedGenome(lab_name) EXCEPT !.retrieval_preferences = rp] : rp \in RetrievalPreferences}
  \cup {[critique_focus |-> SeedGenome(lab_name).critique_focus]}

ResearchPlans ==
  {[keywords |-> <<>>],
   [keywords |-> <<"collision avoidance", "cut_in">>]}

RetrieverInit ==
  /\ Standalone
  /\ unit \in {[class |-> "RetrieverAgent", lab_name |-> lab_name, genome |-> genome] :
                 lab_name \in Labs, genome \in RetrieverGenomes("SafetyLab")
                                            \cup RetrieverGenomes("PerformanceLab")}
  /\ calls = <<>>

\* self.retrieve(research_plan)
RetrieverRetrieve ==
  \E research_plan \in ResearchPlans :
     Called("retrieve", research_plan, retrieve(unit.lab_name, unit.genome, research_plan))

RetrieverNext == RetrieverRetrieve

RetrieverSpec == RetrieverInit /\ [][RetrieverNext]_vars

\* ------------------------------------------------------------------------
\* Properties of the Retriever (RetrieverSpec)
\* ------------------------------------------------------------------------
\* the year window and the venue weights the unit's genome declares
WindowOf(genome) ==
  IF "retrieval_preferences" \in DOMAIN genome
     /\ "year_window" \in DOMAIN genome.retrieval_preferences
  THEN genome.retrieval_preferences.year_window
  ELSE <<2018, 2024>>

VenueWeightsOf(genome) ==
  IF "retrieval_preferences" \in DOMAIN genome
     /\ "venue_weights" \in DOMAIN genome.retrieval_preferences
  THEN genome.retrieval_preferences.venue_weights
  ELSE <<>>

\* position of a paper in its lab's catalog
CatalogIndex(lab_name, paper) ==
  LET catalog == IF lab_name = "SafetyLab" THEN _get_safety_papers ELSE _get_performance_papers
  IN  CHOOSE i \in 1..Len(catalog) : catalog[i].title = paper.title

\* C16: whatever the genome's year window (inverted ones included) and venue
\* weights, retrieve returns at most 10 papers, in non-increasing order of
\* relevance_score, none with a year outside [window.min, window.max].
C16_RetrieverOutputBounded ==
  \A k \in 1..Len(calls) :
    LET papers == calls[k].result
        window == WindowOf(unit.genome)
    IN  /\ Len(papers) <= 10
        /\ \A i \in 1..Len(papers) : \A j \in (i + 1)..Len(papers) :
             papers[i].relevance_score >= papers[j].relevance_score
        /\ \A i \in 1..Len(papers) :
             window[1] <= papers[i].year /\ papers[i].year <= window[2]

\* a Retriever whose window excludes a catalog paper has returned two papers
\* of different relevance, the catalog's second before its first
C16_Witness ==
  /\ unit.class = "RetrieverAgent"
  /\ WindowOf(unit.genome) = <<2023, 2024>>
  /\ \E k \in 1..Len(calls) :
       LET papers == calls[k].result
       IN  /\ Len(papers) = 2
           /\ papers[1].relevance_score > papers[2].relevance_score
           /\ CatalogIndex(unit.lab_name, papers[1]) = 2
           /\ CatalogIndex(unit.lab_name, papers[2]) = 1

JudgeScores == {65, 70, 84}

Recommendations ==
  {recommendations_for_improvement,
   [SafetyLab |-> <<"Use the latest robustness results">>,
    PerformanceLab |-> <<"Improve Accuracy and speed on recent benchmarks">>],
   [SafetyLab |-> <<"Report robustness and safety metrics",
                    "Robustness under rain: use performance_metrics">>,
    PerformanceLab |-> <<"Accuracy first", "Speed and accuracy on the latest hardware">>]}

JudgeDecisions ==
  {[winner |-> winner, safety_lab_score |-> safety_score,
    performance_lab_score |-> performance_score,
    recommendations_for_improvement |-> recommendations] :
     winner \in {"SafetyLab", "PerformanceLab", "Tie"},
     safety_score \in JudgeScores, performance_score \in JudgeScores,
     recommendations \in Recommendations}

KeywordLists(lab_name) ==
  {<<"a">>, <<"a", "b", "c">>, <<"d", "c", "b", "a">>,
   SeedGenome(lab_name).retrieval_preferences.keywords}

\* genomes passed to learn: the seeded ones, with any of the keyword lists
LearnGenomes(lab_name) ==
  {[SeedGenome(lab_name) EXCEPT !.retrieval_preferences.keywords = keywords] :
     keywords \in KeywordLists(lab_name)}

\* genomes passed to learn that differ from the seeded ones in the critique
\* weights, the venue weights and the year window: none at all with a window
\* that ends before 2020; weights within [0, 1], a dimension written with a
\* capital among them; weights outside [0, 1]
TunedGenomes(lab_name) ==
  {[SeedGenome(lab_name) EXCEPT !.critique_focus.weights = t.weights,
                                !.retrieval_preferences.venue_weights = t.venue_weights,
                                !.retrieval_preferences.year_window = t.year_window] :
     t \in {[weights |-> <<>>, venue_weights |-> <<>>, year_window |-> <<2015, 2019>>],
            [weights |-> << <<"robustness", 85>>, <<"safety_metrics", 95>>, <<"Safety", 50>>,
                            <<"performance_metrics", 0>>, <<"accuracy", 60>>, <<"speed", 95>> >>,
             venue_weights |-> << <<"CVPR", 95>>, <<"ICRA", 95>> >>,
             year_window |-> <<2019, 2024>>],
            [weights |-> << <<"robustness", 150>>, <<"accuracy", -20>> >>,
             venue_weights |-> << <<"CVPR", 98>> >>,
             year_window |-> <<2021, 2023>>]}}

\* version strings a caller passes: well-formed ones and texts float() rejects
VersionStrings ==
  {Chars("v0.1"), Chars("v0.9"), Chars("v1.0"), Chars("v2.5"), Chars("v9.9"),
   Chars("v10.0"), Chars("v3"), Chars("0.4"), Chars("vv0.4"),
   Chars("garbage"), Chars(""), Chars("v"), Chars("version 1"), Chars("v1.2.3"),
   Chars("v0,1")}

MetaLearnerInit ==
  /\ Standalone
  /\ unit \in
       {[class |-> "MetaLearnerAgent",
         caller |-> [method |-> "learn", judge_decision |-> judge_decision,
                     safety_genome |-> safety_genome,
                     performance_genome |-> performance_genome]] :
          judge_decision \in JudgeDecisions,
          safety_genome \in LearnGenomes("SafetyLab"),
          performance_genome \in LearnGenomes("PerformanceLab")}
       \cup
       {[class |-> "MetaLearnerAgent",
         caller |-> [method |-> "learn", judge_decision |-> judge_decision,
                     safety_genome |-> safety_genome,
                     performance_genome |-> performance_genome]] :
          judge_decision \in JudgeDecisions,
          safety_genome \in TunedGenomes("SafetyLab"),
          performance_genome \in TunedGenomes("PerformanceLab")}
       \cup
       {[class |-> "MetaLearnerAgent",
         caller |-> [method |-> "create_new_genome_version",
                     genome_data |-> SeedGenome(lab_name), lab_name |-> lab_name,
                     current_version |-> current_version,
                     change_description |-> change_description]] :
          lab_name \in Labs,
          current_version \in {None} \cup {Some(v) : v \in VersionStrings},
          change_description \in {NoChanges, <<[text |-> "Maintained successful strategy"]>>}}
  /\ calls = <<>>

\* self.learn(judge_decision, safety_genome, performance_genome, event_data):
\* the caller's first call, on the genomes it starts from
MetaLearnerLearn ==
  /\ unit.caller.method = "learn"
  /\ calls = <<>>
  /\ Called("learn", unit.caller,
            learn(unit.caller.judge_decision,
                  ("safety_genome" :> unit.caller.safety_genome)
                     @@ ("performance_genome" :> unit.caller.performance_genome)))

\* self.create_new_genome_version(genome_data, lab_name, current_version, change_description)
MetaLearnerCreateVersion ==
  /\ unit.caller.method = "create_new_genome_version"
  /\ Called("create_new_genome_version", unit.caller,
            create_new_genome_version(unit.caller.genome_data, unit.caller.lab_name,
                                      unit.caller.current_version,
                                      unit.caller.change_description))

\* self.learn on the genomes the call before returned, as analyze_event does
\* from one run to the next, with the judge naming any winner
MetaLearnerLearnAgain ==
  /\ calls # <<>>
  /\ calls[Len(calls)].method = "learn"
  /\ \E winner \in {"SafetyLab", "PerformanceLab", "Tie"} :
       LET args == [method |-> "learn",
                    judge_decision |-> [unit.caller.judge_decision EXCEPT !.winner = winner],
                    safety_genome |-> calls[Len(calls)].result.new_safety_genome,
                    performance_genome |-> calls[Len(calls)].result.new_performance_genome]
       IN  Called("learn", args,
                  learn(args.judge_decision,
                        ("safety_genome" :> args.safety_genome)
                           @@ ("performance_genome" :> args.performance_genome)))

MetaLearnerNext == MetaLearnerLearn \/ MetaLearnerLearnAgain \/ MetaLearnerCreateVersion

MetaLearnerSpec == MetaLearnerInit /\ [][MetaLearnerNext]_vars

\* ------------------------------------------------------------------------
\* Properties of the MetaLearner (MetaLearnerSpec)
\* ------------------------------------------------------------------------
Rival(lab_name) == IF lab_name = "SafetyLab" THEN "PerformanceLab" ELSE "SafetyLab"

\* what a learn call was given, and what it returned, for one lab
LearnGiven(call, lab_name) ==
  IF lab_name = "SafetyLab"
  THEN [genome |-> call.args.safety_genome, rival_genome |-> call.args.performance_genome,
        score |-> call.args.judge_decision.safety_lab_score]
  ELSE [genome |-> call.args.performance_genome, rival_genome |-> call.args.safety_genome,
        score |-> call.args.judge_decision.performance_lab_score]

LearnReturned(call, lab_name) ==
  IF lab_name = "SafetyLab"
  THEN [genome |-> call.result.new_safety_genome, changes |-> call.result.safety_changes]
  ELSE [genome |-> call.result.new_performance_genome,
        changes |-> call.result.performance_changes]

\* C11: learn chooses the rule for each lab on its own: the losing rule is
\* applied iff the other lab won or the lab's own score is below 0.70, the
\* winning rule iff the lab won and its score is at least 0.70, and the tie
\* rule (after those) to both labs iff the winner is Tie; what learn returns
\* for the lab is the outcome of exactly those rules.  In particular a
\* SafetyLab score of 0.65 always yields updated = true for SafetyLab.
C11_RulePerLab ==
  \A k \in 1..Len(calls) :
    calls[k].method = "learn" =>
      /\ \A lab_name \in Labs :
           LET given == LearnGiven(calls[k], lab_name)
               decision == calls[k].args.judge_decision
               losing == decision.winner = Rival(lab_name) \/ given.score < 70
               winning == decision.winner = lab_name /\ given.score >= 70
               first == IF losing
                        THEN _update_losing_genome(
                               given.genome, given.rival_genome,
                               decision.recommendations_for_improvement[lab_name])
                        ELSE IF winning THEN _reinforce_winning_genome(given.genome)
                        ELSE [genome |-> given.genome, changes |-> <<>>]
               last == IF decision.winner = "Tie" THEN _minor_adjustments(first.genome)
                       ELSE first
           IN  LearnReturned(calls[k], lab_name)
                  = [genome |-> last.genome, changes |-> JoinChanges(last.changes)]
      /\ calls[k].args.judge_decision.safety_lab_score = 65
            => calls[k].result.safety_changes # NoChanges

\* learn was called with SafetyLab the winner at a score of 0.65, and applied
\* the losing rule to it: SafetyLab adopted keywords of PerformanceLab
C11_Witness ==
  /\ unit.class = "MetaLearnerAgent"
  /\ \E k \in 1..Len(calls) :
       /\ calls[k].method = "learn"
       /\ calls[k].args.judge_decision.winner = "SafetyLab"
       /\ calls[k].args.judge_decision.safety_lab_score = 65
       /\ calls[k].result.safety_changes[1].text = "Added keywords"
       /\ calls[k].result.safety_changes # NoChanges

\* C12: under the losing rule the lab's new keyword list is its old list
\* followed by the first at most two keywords of the other lab's list, in that
\* list's order, that the old list does not contain (other [a, b, c] and own
\* [a] adds exactly [b, c]); the other lab's list is the one passed to learn,
\* and the genomes passed to learn are left as they were.
C12_KeywordAdoption ==
  \A k \in 1..Len(calls) :
    calls[k].method = "learn" =>
      /\ \A lab_name \in Labs :
           LET given == LearnGiven(calls[k], lab_name)
               old == given.genome.retrieval_preferences.keywords
               other == given.rival_genome.retrieval_preferences.keywords
               fresh == SelectSeq(other, LAMBDA kw : \A i \in 1..Len(old) : old[i] # kw)
               added == SubSeq(fresh, 1, IF Len(fresh) > 2 THEN 2 ELSE Len(fresh))
           IN  (calls[k].args.judge_decision.winner = Rival(lab_name) \/ given.score < 70)
                  => /\ LearnReturned(calls[k], lab_name).genome.retrieval_preferences.keywords
                          = old \o added
                     /\ (old = <<"a">> /\ other = <<"a", "b", "c">>) => added = <<"b", "c">>
      /\ calls[k].result.heap["safety_genome"] = calls[k].args.safety_genome
      /\ calls[k].result.heap["performance_genome"] = calls[k].args.performance_genome

\* SafetyLab with keywords [a] lost to PerformanceLab with [a, b, c] and now
\* has [a, b, c]; PerformanceLab's list passed to learn is still [a, b, c]
C12_Witness ==
  /\ unit.class = "MetaLearnerAgent"
  /\ \E k \in 1..Len(calls) :
       /\ calls[k].method = "learn"
       /\ calls[k].args.judge_decision.winner = "PerformanceLab"
       /\ calls[k].args.safety_genome.retrieval_preferences.keywords = <<"a">>
       /\ calls[k].args.performance_genome.retrieval_preferences.keywords = <<"a", "b", "c">>
       /\ calls[k].result.new_safety_genome.retrieval_preferences.keywords = <<"a", "b", "c">>
       /\ calls[k].result.heap["performance_genome"].retrieval_preferences.keywords
            = <<"a", "b", "c">>

\* C18: create_new_genome_version turns "v0.1" into "v0.2" and in general
\* v<x> into v<x + 0.1> with one decimal ("v0.9" into "v1.0"), a missing
\* current version into "v0.1", and a current version that is no number, such
\* as "garbage", into "v0.2".
C18_VersionBump ==
  \A k \in 1..Len(calls) :
    calls[k].method = "create_new_genome_version" =>
      LET current_version == calls[k].args.current_version
          new_version == calls[k].result.new_version
          bumps == {<<"v0.1", "v0.2">>, <<"v0.9", "v1.0">>, <<"v1.0", "v1.1">>,
                    <<"v2.5", "v2.6">>, <<"v9.9", "v10.0">>, <<"v10.0", "v10.1">>,
                    <<"v3", "v3.1">>, <<"0.4", "v0.5">>, <<"vv0.4", "v0.5">>}
          malformed == {"garbage", "", "v", "version 1", "v1.2.3", "v0,1"}
      IN  /\ current_version = None => new_version = Chars("v0.1")
          /\ \A b \in bumps :
               current_version = Some(Chars(b[1])) => new_version = Chars(b[2])
          /\ \A text \in malformed :
               current_version = Some(Chars(text)) => new_version = Chars("v0.2")
          /\ \/ current_version = None
             \/ \E b \in bumps : current_version = Some(Chars(b[1]))
             \/ \E text \in malformed : current_version = Some(Chars(text))
          /\ calls[k].result.genome_dict.version = new_version

\* the version after "v0.9" was asked for, and is "v1.0"
C18_Witness ==
  /\ unit.class = "MetaLearnerAgent"
  /\ \E k \in 1..Len(calls) :
       /\ calls[k].method = "create_new_genome_version"
       /\ calls[k].args.current_version = Some(Chars("v0.9"))
       /\ calls[k].result.new_version = Chars("v1.0")

\* ------------------------------------------------------------------------
\* CriticAgent(lab_name, genome) on its own (agents/critic.py), with the
\* collaborator behaving in one way; unit.caller holds the arguments of
\* critique: papers as the Reader returns them, and the event
\* ------------------------------------------------------------------------
\* critique_focus.dimensions: none, some the fallback scores from the paper's
\* metrics, some it scores 0.75, and the seeded lists
DimensionLists ==
  {<<>>, <<"robustness">>, <<"robustness", "novelty">>,
   <<"accuracy", "robustness", "novelty">>, <<"speed", "accuracy">>,
   safety_genome_v01.critique_focus.dimensions,
   performance_genome_v01.critique_focus.dimensions}

\* critique_focus.weights, in hundredths: maps shorter than the dimension
\* lists, zero, negative and above 1.0 ("weights unbounded"), the seeded ones
WeightMaps ==
  {<<>>,
   << <<"robustness", 50>> >>,
   << <<"robustness", 0>>, <<"novelty", 0>>, <<"accuracy", 0>>, <<"speed", 0>> >>,
   << <<"robustness", 100>>, <<"accuracy", -100>> >>,
   << <<"robustness", -100>> >>,
   << <<"accuracy", 150>>, <<"robustness", 25>>, <<"novelty", 200>> >>,
   safety_genome_v01.critique_focus.weights,
   performance_genome_v01.critique_focus.weights}

CriticGenomes(lab_name) ==
  {[SeedGenome(lab_name) EXCEPT !.critique_focus =
      [dimensions |-> dimensions, weights |-> weights]] :
     dimensions \in DimensionLists, weights \in WeightMaps}
  \cup {[reading_template |-> SeedGenome(lab_name).reading_template]}

\* what critique is given: the lab's papers read in retrieval order or in
\* catalog order, or no paper
PaperLists(lab_name, genome) ==
  {read(genome, retrieve(lab_name, SeedGenome(lab_name), [keywords |-> <<>>])),
   read(genome, IF lab_name = "SafetyLab" THEN _get_safety_papers
                ELSE _get_performance_papers),
   <<>>}

CriticInit ==
  /\ Standalone
  /\ \E lab_name \in Labs : \E genome \in CriticGenomes(lab_name) :
     \E behaviour \in Behaviours : \E papers \in PaperLists(lab_name, genome) :
     \E event_data \in {e \in Events : e.severity = "high"} :
        unit = [class |-> "CriticAgent", lab_name |-> lab_name, genome |-> genome,
                llm_client |-> behaviour,
                caller |-> [papers |-> papers, event_data |-> event_data]]
  /\ calls = <<>>

\* self.critique(papers, event_data)
CriticCritique ==
  Called("critique", unit.caller,
         critique(unit.lab_name, unit.genome, unit.caller.papers,
                  unit.caller.event_data, unit.llm_client))

CriticNext == CriticCritique

CriticSpec == CriticInit /\ [][CriticNext]_vars

\* ------------------------------------------------------------------------
\* Properties of the Critic (CriticSpec)
\* ------------------------------------------------------------------------
\* the dimensions and weights the unit's genome declares
DimensionsOf(genome) ==
  IF "critique_focus" \in DOMAIN genome THEN genome.critique_focus.dimensions ELSE <<>>

WeightsOf(genome) ==
  IF "critique_focus" \in DOMAIN genome THEN genome.critique_focus.weights ELSE <<>>

RECURSIVE WeightSumOver(_, _)
\* sum(weight[d]) over the dimensions, a missing weight being 1.0; hundredths
WeightSumOver(dimensions, weights) ==
  IF dimensions = <<>> THEN 0
  ELSE DictGet(weights, dimensions[1], 100) + WeightSumOver(Tail(dimensions), weights)

RECURSIVE ScoreSumOver(_, _, _)
\* sum(score[d] * weight[d]) over the dimensions, a missing score being 0.5
ScoreSumOver(scores, dimensions, weights) ==
  IF dimensions = <<>> THEN 0
  ELSE DictGet(scores, dimensions[1], 1500) * DictGet(weights, dimensions[1], 100)
         + ScoreSumOver(scores, Tail(dimensions), weights)

\* the critique calls that returned
CritiqueReturned == {k \in 1..Len(calls) : calls[k].method = "critique" /\ ~calls[k].result.raised}

\* C13: every critiqued paper's overall_score is
\* sum(score[d] * weight[d]) / sum(weight[d]) over the declared dimensions,
\* with weight 1.0 for a dimension the weight map lacks (wherever that
\* quotient exists, i.e. the weight sum is not zero).
C13_OverallScoreFormula ==
  \A k \in CritiqueReturned : \A i \in 1..Len(calls[k].result.value) :
    LET critique_result == calls[k].result.value[i].critique
        overall_score == DictGet(critique_result, "overall_score", <<>>)
        weight_sum == WeightSumOver(DimensionsOf(unit.genome), WeightsOf(unit.genome))
        score_sum == ScoreSumOver(DictGet(critique_result, "scores", <<>>),
                                  DimensionsOf(unit.genome), WeightsOf(unit.genome))
    IN  weight_sum # 0 => overall_score.num * weight_sum = score_sum * overall_score.den

\* C14: whenever the weights of the declared dimensions sum to zero (an empty
\* dimension list included) every critiqued paper's overall_score is exactly
\* 0.5, and the critique raises nothing unless the collaborator's answer or
\* the fallback scoring did.
C14_ZeroWeightSum ==
  \A k \in 1..Len(calls) :
    (/\ calls[k].method = "critique"
     /\ WeightSumOver(DimensionsOf(unit.genome), WeightsOf(unit.genome)) = 0) =>
       /\ ~calls[k].result.raised =>
            \A i \in 1..Len(calls[k].result.value) :
               DictGet(calls[k].result.value[i].critique, "overall_score", <<>>)
                  = [num |-> 1500, den |-> 1]
       /\ (\/ unit.llm_client \in {"mock", "empty_object"}
           \/ /\ unit.llm_client = "text"
              /\ \A i \in 1..Len(unit.caller.papers) :
                   ~_default_critique(unit.caller.papers[i], DimensionsOf(unit.genome)).raised)
            => ~calls[k].result.raised

\* a Critic whose two dimensions weigh -1.0 and (by default) 1.0 has
\* critiqued three papers, each with overall_score 0.5
C14_Witness ==
  /\ unit.class = "CriticAgent"
  /\ DimensionsOf(unit.genome) = <<"robustness", "novelty">>
  /\ WeightsOf(unit.genome) = << <<"robustness", -100>> >>
  /\ \E k \in CritiqueReturned :
       /\ Len(calls[k].result.value) = 3
       /\ \A i \in 1..3 :
            DictGet(calls[k].result.value[i].critique, "overall_score", <<>>)
               = [num |-> 1500, den |-> 1]

\* the position in the papers given to critique of a paper it returned
GivenIndex(paper) ==
  CHOOSE i \in 1..Len(unit.caller.papers) : unit.caller.papers[i].title = paper.title

\* C15: critique returns the papers it was given, each once and each with a
\* critique added, in non-increasing order of overall_score, papers of equal
\* overall_score in the order they were given in.
C15_CritiqueSorted ==
  \A k \in CritiqueReturned :
    LET given == unit.caller.papers
        papers == calls[k].result.value
        overall_score(i) == DictGet(papers[i].critique, "overall_score", <<>>)
    IN  /\ Len(papers) = Len(given)
        /\ \A i \in 1..Len(papers) :
             /\ \E g \in 1..Len(given) : given[g].title = papers[i].title
             /\ DOMAIN papers[i] = DOMAIN given[GivenIndex(papers[i])] \cup {"critique"}
             /\ \A f \in DOMAIN given[GivenIndex(papers[i])] :
                  papers[i][f] = given[GivenIndex(papers[i])][f]
        /\ \A i \in 1..Len(papers) : \A j \in (i + 1)..Len(papers) :
             /\ GivenIndex(papers[i]) # GivenIndex(papers[j])
             /\ ~RatGreater(overall_score(j), overall_score(i))
             /\ RatEqual(overall_score(i), overall_score(j))
                  => GivenIndex(papers[i]) < GivenIndex(papers[j])

\* a Critic has returned the paper it was given second before the first and
\* the third, which have the same overall_score
C15_Witness ==
  /\ unit.class = "CriticAgent"
  /\ \E k \in CritiqueReturned :
       LET papers == calls[k].result.value
       IN  /\ Len(papers) = 3
           /\ GivenIndex(papers[1]) = 2
           /\ GivenIndex(papers[2]) = 1
           /\ GivenIndex(papers[3]) = 3
           /\ RatEqual(DictGet(papers[2].critique, "overall_score", <<>>),
                       DictGet(papers[3].critique, "overall_score", <<>>))
           /\ RatGreater(DictGet(papers[1].critique, "overall_score", <<>>),
                         DictGet(papers[2].critique, "overall_score", <<>>))

\* the fps entry the Reader recorded for the field dim is scored from: None
\* when the paper has no such metric
RecordedFps(paper, dim) ==
  LET field == IF dim = "speed" THEN "performance_metrics" ELSE "computational_cost"
  IN  IF \E i \in 1..Len(paper.extracted_info) : paper.extracted_info[i][1] = field
      THEN DictGet(paper.extracted_info, field, <<>>).fps
      ELSE None

\* C20: when the collaborator's answer is not JSON, critique raises nothing
\* and scores every paper on speed and on computational_efficiency with 0.5
\* if the paper's fps is absent and with min(fps / 60, 1.0) if it is present.
C20_FallbackFpsScore ==
  \A k \in 1..Len(calls) :
    (calls[k].method = "critique" /\ unit.llm_client = "text") =>
      /\ ~calls[k].result.raised
      /\ ~calls[k].result.raised =>
           \A i \in 1..Len(calls[k].result.value) :
           \A j \in 1..Len(DimensionsOf(unit.genome)) :
             LET paper == calls[k].result.value[i]
                 dim == DimensionsOf(unit.genome)[j]
                 fps == RecordedFps(paper, dim)
             IN  dim \in {"speed", "computational_efficiency"} =>
                   DictGet(DictGet(paper.critique, "scores", <<>>), dim, <<>>)
                     = IF fps = None THEN 1500 ELSE Min(fps[1] \div 20, 3000)

\* ------------------------------------------------------------------------
\* Properties of the rules of the MetaLearner (MetaLearnerSpec)
\* ------------------------------------------------------------------------
\* the learn calls made
LearnCalls == {k \in 1..Len(calls) : calls[k].method = "learn"}

\* C21: under the losing rule every critique weight is raised by 0.1, capped
\* at 1.0, once for each recommendation that contains the dimension's name
\* with spaces for underscores, letter case ignored in the name as in the
\* recommendation; a dimension no recommendation names keeps its weight.
C21_RecommendedWeights ==
  \A k \in LearnCalls : \A lab_name \in Labs :
    LET given == LearnGiven(calls[k], lab_name)
        returned == LearnReturned(calls[k], lab_name)
        recommendations == calls[k].args.judge_decision.recommendations_for_improvement[lab_name]
        old == given.genome.critique_focus.weights
        new == returned.genome.critique_focus.weights
        named(dimension) ==
          {r \in 1..Len(recommendations) :
             Contains(Lower(Chars(recommendations[r])),
                      Lower(ReplaceChar(Chars(dimension), "_", " ")))}
        RECURSIVE raised(_, _)
        raised(weight, times) ==
          IF times = 0 THEN weight ELSE raised(Min(weight + 10, 100), times - 1)
    IN  needs_improvement(calls[k].args.judge_decision.winner, Rival(lab_name), given.score) =>
          /\ Len(new) = Len(old)
          /\ \A d \in 1..Len(old) :
               /\ new[d][1] = old[d][1]
               /\ new[d][2] = raised(old[d][2], Cardinality(named(old[d][1])))

C23_TieRule ==
  \A k \in LearnCalls : \A lab_name \in Labs :
    LET given == LearnGiven(calls[k], lab_name)
        returned == LearnReturned(calls[k], lab_name)
        old == given.genome.retrieval_preferences.venue_weights
        new == returned.genome.retrieval_preferences.venue_weights
    IN  calls[k].args.judge_decision.winner = "Tie" =>
          /\ Len(new) = Len(old)
          /\ old = <<>> => returned.changes = <<[text |-> "No significant changes"]>>
          /\ old # <<>> =>
               \E m \in 1..Len(old) :
                 /\ \A d \in 1..Len(old) : old[d][2] <= old[m][2]
                 /\ new[m] = <<old[m][1], Min(old[m][2] + 5, 100)>>
                 /\ \A d \in 1..Len(old) : d # m => new[d] = old[d]
                 /\ returned.changes = <<[text |-> "Increased venue weight", venue |-> old[m][1],
                                          old |-> old[m][2], new |-> new[m][2]]>>

\* a tie has raised PerformanceLab's only venue weight from 0.98 to 1.0
C23_Witness ==
  \E k \in LearnCalls :
    /\ calls[k].args.judge_decision.winner = "Tie"
    /\ calls[k].args.performance_genome.retrieval_preferences.venue_weights
         = << <<"CVPR", 98>> >>
    /\ calls[k].result.new_performance_genome.retrieval_preferences.venue_weights
         = << <<"CVPR", 100>> >>
    /\ calls[k].result.performance_changes[1].old = 98

\* C24: whichever of SafetyLab, PerformanceLab and Tie the judge names and
\* whatever the scores, learn returns for both labs a change description
\* other than "No changes", which run_analysis reports as updated = true and
\* analyze_event turns into a new genome row; so also when the rule applied
\* only left its placeholder text or assigned a weight of 1.0 again.
C24_BothLabsUpdated ==
  \A k \in LearnCalls : \A lab_name \in Labs :
    calls[k].args.judge_decision.winner \in {"SafetyLab", "PerformanceLab", "Tie"} =>
      /\ LearnReturned(calls[k], lab_name).changes # NoChanges
      /\ LearnReturned(calls[k], lab_name).changes # <<>>

\* SafetyLab won with its largest weight already 1.0 and PerformanceLab had
\* nothing to adopt: both returned genomes equal the ones given, and both
\* change descriptions are there
C24_Witness ==
  \E k \in LearnCalls :
    /\ calls[k].args.judge_decision.winner = "SafetyLab"
    /\ calls[k].result.new_safety_genome = calls[k].args.safety_genome
    /\ calls[k].result.new_performance_genome = calls[k].args.performance_genome
    /\ calls[k].result.safety_changes
         = <<[text |-> "Reinforced", dimension |-> "robustness", old |-> 100, new |-> 100]>>
    /\ calls[k].result.performance_changes = <<[text |-> "Minor parameter adjustments"]>>

\* C25: whatever learn changed in a lab's genome is named in the lab's change
\* description: the keywords added, each dimension whose critique weight
\* changed, the year window, each venue whose weight changed; for every
\* winner and every pair of scores.
C25_ChangesDescribed ==
  \A k \in LearnCalls : \A lab_name \in Labs :
    LET old == LearnGiven(calls[k], lab_name).genome
        new == LearnReturned(calls[k], lab_name).genome
        changes == LearnReturned(calls[k], lab_name).changes
        described(text) == {c \in 1..Len(changes) : changes[c].text = text}
    IN  /\ new.retrieval_preferences.keywords # old.retrieval_preferences.keywords =>
             \E c \in described("Added keywords") :
               new.retrieval_preferences.keywords
                 = old.retrieval_preferences.keywords \o changes[c].keywords
        /\ \A d \in 1..Len(old.critique_focus.weights) :
             new.critique_focus.weights[d] # old.critique_focus.weights[d] =>
               \E c \in described("Increased weight for") \cup described("Reinforced") :
                 changes[c].dimension = old.critique_focus.weights[d][1]
        /\ new.retrieval_preferences.year_window # old.retrieval_preferences.year_window =>
             described("Updated year window to focus on more recent research (2020-2024)") # {}
        /\ \A v \in 1..Len(old.retrieval_preferences.venue_weights) :
             new.retrieval_preferences.venue_weights[v] # old.retrieval_preferences.venue_weights[v] =>
               \E c \in described("Increased venue weight") :
                 changes[c].venue = old.retrieval_preferences.venue_weights[v][1]

\* every weight of the two genomes lies in [0, 1]
WeightsInUnitRange(safety_genome, performance_genome) ==
  \A genome \in {safety_genome, performance_genome} :
    /\ \A d \in 1..Len(genome.critique_focus.weights) :
         genome.critique_focus.weights[d][2] \in 0..100
    /\ \A v \in 1..Len(genome.retrieval_preferences.venue_weights) :
         genome.retrieval_preferences.venue_weights[v][2] \in 0..100

\* C26: if the genomes the caller starts from have every critique weight and
\* every venue weight in [0, 1], then after every learn call of a sequence,
\* each made on the genomes the call before returned, every weight is in
\* [0, 1] and none is below what it was before the call.
C26_WeightsStayInRange ==
  (/\ unit.class = "MetaLearnerAgent"
   /\ unit.caller.method = "learn"
   /\ WeightsInUnitRange(unit.caller.safety_genome, unit.caller.performance_genome)) =>
    \A k \in LearnCalls : \A lab_name \in Labs :
      LET old == LearnGiven(calls[k], lab_name).genome
          new == LearnReturned(calls[k], lab_name).genome
      IN  /\ WeightsInUnitRange(calls[k].result.new_safety_genome,
                                calls[k].result.new_performance_genome)
          /\ \A d \in 1..Len(old.critique_focus.weights) :
               /\ new.critique_focus.weights[d][1] = old.critique_focus.weights[d][1]
               /\ new.critique_focus.weights[d][2] >= old.critique_focus.weights[d][2]
          /\ \A v \in 1..Len(old.retrieval_preferences.venue_weights) :
               /\ new.retrieval_preferences.venue_weights[v][1]
                    = old.retrieval_preferences.venue_weights[v][1]
               /\ new.retrieval_preferences.venue_weights[v][2]
                    >= old.retrieval_preferences.venue_weights[v][2]

\* two calls in a row: the first raised SafetyLab's robustness weight from
\* 0.85 to 1.0, the second was made on that genome and left it at 1.0
C26_Witness ==
  /\ Len(calls) = 2
  /\ calls[1].method = "learn"
  /\ calls[2].method = "learn"
  /\ calls[2].args.safety_genome = calls[1].result.new_safety_genome
  /\ DictGet(calls[1].args.safety_genome.critique_focus.weights, "robustness", 0) = 85
  /\ DictGet(calls[1].result.new_safety_genome.critique_focus.weights, "robustness", 0) = 100
  /\ DictGet(calls[2].result.new_safety_genome.critique_focus.weights, "robustness", 0) = 100
  /\ calls[2].args.judge_decision.winner # calls[1].args.judge_decision.winner

\* C27: a year window with min <= max given to learn comes back with
\* min <= max, and with the upper bound it had.
C27_YearWindowOrdered ==
  \A k \in LearnCalls : \A lab_name \in Labs :
    LET old == LearnGiven(calls[k], lab_name).genome.retrieval_preferences.year_window
        new == LearnReturned(calls[k], lab_name).genome.retrieval_preferences.year_window
    IN  old[1] <= old[2] => (new[1] <= new[2] /\ new[2] = old[2])

\* ------------------------------------------------------------------------
\* JudgeAgent() on its own (agents/judge.py)
\* ------------------------------------------------------------------------
\* events given to judge: the three severities, values the judge does not
\* know, and an event without severity
JudgeEvents ==
  {[event_type |-> event_type, severity |-> severity] :
     event_type \in {"cut_in", "lane_change"},
     severity \in {"high", "medium", "low", "critical", "HIGH"}}
  \cup {[event_type |-> "cut_in"]}

\* syntheses given to judge: the collaborator's, the fallback's, an empty
\* object, and one that argues for the other lab
SynthesisOutputs(lab_name) ==
  {mock_synthesis, <<>>,
   _default_synthesis(lab_name, <<>>, [event_type |-> "cut_in"]),
   << <<"summary", Chars(Rival(lab_name))>>, <<"confidence_level", "high">> >>}

JudgeInit ==
  /\ Standalone
  /\ unit \in {[class |-> "JudgeAgent",
                caller |-> [safety_lab_output |-> safety_lab_output,
                            performance_lab_output |-> performance_lab_output,
                            event_data |-> event_data]] :
                 safety_lab_output \in SynthesisOutputs("SafetyLab"),
                 performance_lab_output \in SynthesisOutputs("PerformanceLab"),
                 event_data \in JudgeEvents}
  /\ calls = <<>>

\* self.judge(safety_lab_output, performance_lab_output, event_data)
JudgeJudge ==
  Called("judge", unit.caller,
         [raised |-> FALSE,
          value |-> judge(unit.caller.safety_lab_output, unit.caller.performance_lab_output,
                          unit.caller.event_data)])

JudgeSpec == JudgeInit /\ [][JudgeJudge]_vars

\* ------------------------------------------------------------------------
\* Properties of the Judge (JudgeSpec)
\* ------------------------------------------------------------------------
\* C28: a medium event is judged 0.81 to 0.80 and a tie; a low event 0.78 to
\* 0.83, which is 0.05 apart and therefore won by PerformanceLab; an event
\* whose severity is neither high nor medium is judged as a low one.
C28_JudgmentPerSeverity ==
  \A k \in 1..Len(calls) :
    LET severity == RecGet(calls[k].args.event_data, "severity", "medium")
        decision == calls[k].result.value
    IN  /\ severity = "medium" =>
             /\ decision.safety_lab_score = 81 /\ decision.performance_lab_score = 80
             /\ decision.winner = "Tie"
        /\ severity = "low" =>
             /\ decision.safety_lab_score = 78 /\ decision.performance_lab_score = 83
             /\ decision.performance_lab_score - decision.safety_lab_score = 5
             /\ decision.winner = "PerformanceLab"
        /\ severity \notin {"high", "medium"} =>
             /\ decision.safety_lab_score = 78 /\ decision.performance_lab_score = 83
             /\ decision.winner = "PerformanceLab"

\* an event of severity "critical" has been judged as a low one
C28_Witness ==
  \E k \in 1..Len(calls) :
    /\ calls[k].method = "judge"
    /\ calls[k].args.event_data.event_type = "lane_change"
    /\ RecGet(calls[k].args.event_data, "severity", "medium") = "critical"
    /\ calls[k].result.value.winner = "PerformanceLab"
    /\ calls[k].result.value.safety_lab_score = 78

\* C29: the decision judge returned is the one it returns for the same
\* event on any other pair of syntheses, field by field; and for any other
\* event of the same severity the winner and the two scores are the same.
C29_JudgeIgnoresOutputs ==
  \A k \in 1..Len(calls) :
    LET event_data == calls[k].args.event_data
        decision == calls[k].result.value
    IN  /\ \A safety_lab_output \in SynthesisOutputs("SafetyLab") :
           \A performance_lab_output \in SynthesisOutputs("PerformanceLab") :
              judge(safety_lab_output, performance_lab_output, event_data) = decision
        /\ \A other \in JudgeEvents :
              RecGet(other, "severity", "medium") = RecGet(event_data, "severity", "medium") =>
                LET d == judge(calls[k].args.safety_lab_output,
                               calls[k].args.performance_lab_output, other)
                IN  /\ d.winner = decision.winner
                    /\ d.safety_lab_score = decision.safety_lab_score
                    /\ d.performance_lab_score = decision.performance_lab_score

\* judge was given the same synthesis for both labs on a high-severity event
\* and has named SafetyLab the winner
C29_Witness ==
  \E k \in 1..Len(calls) :
    /\ calls[k].method = "judge"
    /\ calls[k].args.safety_lab_output = mock_synthesis
    /\ calls[k].args.performance_lab_output = mock_synthesis
    /\ calls[k].args.event_data.event_type = "cut_in"
    /\ RecGet(calls[k].args.event_data, "severity", "medium") = "high"
    /\ calls[k].result.value.winner = "SafetyLab"
    /\ calls[k].result.value.safety_lab_strengths[1]
         = "Comprehensive collision avoidance strategies"

\* ------------------------------------------------------------------------
\* What the Retriever's output depends on (RetrieverSpec)
\* ------------------------------------------------------------------------
\* C30: the papers retrieve returned are the ones it returns, in the same
\* order, for any other research plan (keywords, sub-questions, search
\* strategy), for the same genome with any other keyword list, those the
\* MetaLearner appends included, and for a genome that shares only the year
\* window and the venue weights.
C30_RetrieverIgnoresKeywords ==
  \A k \in 1..Len(calls) :
    LET genome == unit.genome
        other_keywords ==
          {<<>>, <<"edge cases">>,
           performance_genome_v01.retrieval_preferences.keywords,
           safety_genome_v01.retrieval_preferences.keywords
             \o new_keywords_of(performance_genome_v01.retrieval_preferences.keywords,
                                safety_genome_v01.retrieval_preferences.keywords)}
        other_plans ==
          ResearchPlans
          \cup {<<>>,
                [keywords |-> <<"robust perception">>,
                 sub_questions |-> <<"What are the failure modes?">>,
                 search_strategy |-> "Focus on performance and efficiency"]}
    IN  /\ \A research_plan \in other_plans :
             retrieve(unit.lab_name, genome, research_plan) = calls[k].result
        /\ "retrieval_preferences" \in DOMAIN genome =>
             /\ \A keywords \in other_keywords :
                  retrieve(unit.lab_name,
                           [genome EXCEPT !.retrieval_preferences = [keywords |-> keywords] @@ @],
                           calls[k].args) = calls[k].result
             /\ retrieve(unit.lab_name,
                         [retrieval_preferences |-> genome.retrieval_preferences],
                         calls[k].args) = calls[k].result

\* two calls with different research plans have returned the same three
\* papers, the catalog's second first
C30_Witness ==
  /\ unit.class = "RetrieverAgent"
  /\ Len(calls) = 2
  /\ calls[1].args # calls[2].args
  /\ calls[1].result = calls[2].result
  /\ Len(calls[1].result) = 3
  /\ CatalogIndex(unit.lab_name, calls[1].result[1]) = 2

====
